---- MODULE Spec2Model ----
(***************************************************************************)
(* Model of mailnir's dispatch engine (src-tauri/src/smtp/mod.rs) and of   *)
(* the send_batch / cancel_send commands that drive it                     *)
(* (src-tauri/src/commands.rs), and of what precedes it: the check of the  *)
(* declared sources (src-tauri/src/template/validate.rs), the context      *)
(* builder (src-tauri/src/join/mod.rs), the renderer                       *)
(* (src-tauri/src/render/mod.rs) and the validator                         *)
(* (src-tauri/src/validate/mod.rs).                                        *)
(*                                                                         *)
(* Strings are sequences of one-character strings so that prefix tests     *)
(* (is_transient_error) are computed, not assumed.  Option<T> is a         *)
(* sequence of length at most one: <<>> is None, <<x>> is Some(x).         *)
(*                                                                         *)
(* The spawned task contains no reachable panic (the semaphore is never    *)
(* closed, last_err.unwrap() is never reached), so handle.await is always  *)
(* Ok(result) and the JoinError arm of the collection loop is not taken.   *)
(***************************************************************************)
EXTENDS Integers, Sequences, FiniteSets, TLC

\* ---------------------------------------------------------------- bounds
\* Largest batch handed to send_all_with_progress.
MaxEmails == 2
\* Largest profile.parallelism.
MaxParallelism == 2
\* Largest batch in the runs that exercise every SMTP error text.
MaxRetryEmails == 1
\* Largest batch in the runs whose progress sink sets the cancel flag.
MaxSinkEmails == 3
\* Largest batch in the runs under fair scheduling.
MaxLiveEmails == 2
\* Largest number of primary rows, and of requested entries, of a send_batch
\* call that selects entries.
MaxBatchRows == 2
\* Largest number of rows in a loaded row-set.
MaxRows == 2
\* Largest number of namespaces of the templates given to validate_sources.
MaxSources == 2
\* Largest number of fields of a template with an unresolved variable.
MaxUnresolved == 2
\* Largest number of fragments a body text is put together from.
MaxFragments == 3

\* ------------------------------------------------------ program constants
\* const MAX_ATTEMPTS: u32 = 3 in send_with_retry.
MAX_ATTEMPTS == 3

\* ------------------------------------------------------------------ text
None == <<>>
Some(x) == <<x>>
\* Result<T, MailnirError>
Ok(v) == <<"Ok", v>>
Err(e) == <<"Err", e>>
is_ok(r) == r[1] = "Ok"
is_err(r) == r[1] = "Err"

\* str::starts_with
starts_with(s, p) == Len(s) >= Len(p) /\ SubSeq(s, 1, Len(p)) = p

\* The literal "cancelled" pushed by both cancellation checks.
CancelledText == <<"c", "a", "n", "c", "e", "l", "l", "e", "d">>
\* MailnirError::SmtpConnect displayed ("SMTP connection error: ...").
ConnectErrText == <<"S", "M", "T", "P", " ", "c">>
\* MailnirError::SmtpSend / Io displayed by a failed build_message.
BuildErrText == <<"S", "M", "T", "P", " ", "s">>
\* Displayed SmtpError values a transport.send attempt can fail with.
Err421 == <<"4", "2", "1", " ">>
Err452 == <<"4", "5", "2", " ">>
Err550 == <<"5", "5", "0", " ">>
Err42 == <<"4", "2">>
SendErrors == {Err421, Err452, Err550, Err42}
\* The errors of the runs with larger batches: one transient, one permanent.
FewSendErrors == {Err421, Err550}
\* The errors of the runs of send_batch: a transient one.
BatchSendErrors == {Err421}

\* ----------------------------------------------------------------- state
VARIABLES
    total,              \* emails.len() == pre_built.len()
    message_result,     \* pre_built[i].2: "Ok" or "Err" of build_message
    transport_ok,       \* whether build_transport returns Ok
    parallelism,        \* profile.parallelism
    on_progress,        \* TRUE iff a progress sink was supplied
    smtp_errors,        \* the errors the server answers a send with in this run
    cancel_at,          \* the sink stores true in the flag from this event on (0: never)
    cancel,             \* the shared AtomicBool (SendState.cancel_flag)
    pc,                 \* send_all_with_progress: "idle", "start", "running", "done"
    next,               \* position of the spawn loop in pre_built
    handles,            \* Vec<JoinHandle>: entry_index of each spawned task
    cancelled_results,  \* Vec<SendResult> of rows skipped before spawning
    task,               \* per row: state of its spawned task
    attempt,            \* per row: loop variable of send_with_retry
    last_err,           \* per row: Option<SmtpError> of send_with_retry
    ret,                \* per row: Option<SendResult> the task returned
    permits,            \* permits available in the semaphore
    results,            \* Vec<SendResult> being collected
    events,             \* SendProgress values handed to the sink, in order
    active,             \* SendState.active
    call,               \* per send_batch call: its position
    outcome,            \* per send_batch call: what it returned
    built,              \* history: rows build_message was called for
    sent,               \* history: outcomes of the transport.send calls per row
    acquired,           \* history: rows whose task ever held a permit
    passed,             \* history: rows that passed the post-permit check unset
    terminal,           \* history: rows in the order they became terminal
    interrupted,        \* history: rows that were in send_with_retry when the
                        \*          flag was set, while it stays set
    cancel_requested,   \* history: cancel_send was called during the active batch
    entry_indices,      \* send_batch: Option<Vec<usize>>, the entries to send
    all_contexts,       \* send_batch_inner: per primary row the join error, or
                        \* the context as what render_context returns for it
    index_map,          \* send_batch_inner: original index of each dispatched email
    pre_send_failures,  \* send_batch_inner: entries of rows that were not dispatched
    batch_report,       \* the SendBatchReport the latest send_batch_inner
                        \* returned, <<>> until it returns one
    template,           \* Template.sources: namespace -> SourceConfig
    declared,           \* the namespaces in the order the template declares them
    iteration,          \* the order in which template.sources.iter() yields them
    sources,            \* HashMap<String, Value>: namespace -> loaded row-set
    render_results,     \* per primary row: what render_context returns for its
                        \* context
    stage,              \* "none", "loaded", then the function that was called
    lenient,            \* what build_contexts_lenient returned
    strict,             \* what build_contexts returned
    validation,         \* what validate_all returned
    mail,               \* the mail fields of the Template (cc, bcc, body_format, ..)
    oracle,             \* what Handlebars, the file system, comrak and the CSS
                        \* inliner answer when render_context calls them
    rendered,           \* what render_context returned
    evaluated,          \* history: the steps render_context went through
    mailboxes,          \* the texts lettre parses as Mailboxes
    files,              \* the paths that exist on the file system
    issues,             \* what post_render_checks pushed
    accepted            \* what validate_sources returned

inputs == <<total, message_result, transport_ok, parallelism, on_progress,
            smtp_errors, cancel_at>>
history == <<built, sent, acquired, passed, terminal, interrupted>>
request == <<entry_indices, all_contexts, index_map, pre_send_failures>>
batch == <<active, call, outcome, cancel_requested, request, batch_report>>

rendering == <<mail, oracle, rendered, evaluated, mailboxes, files, issues>>

pipeline == <<template, declared, iteration, sources, render_results, stage,
              lenient, strict, validation, rendering, accepted>>

vars == <<inputs, cancel, pc, next, handles, cancelled_results, task, attempt,
          last_err, ret, permits, results, events, history, batch, pipeline>>

\* The send_batch invocations the front end issues.
Callers == {1, 2}

Rows == 0 .. (total - 1)

\* email.to of row i: every row has its own recipient.
recipient_of(i) == <<"r", i>>

SendResult(i, ok, err) ==
    [entry_index |-> i, recipient |-> recipient_of(i), success |-> ok, error |-> err]

\* ------------------------------------------------- expressions of the code
\* fn is_transient_error(err): the displayed error starts with 421 or 452.
is_transient_error(e) ==
    starts_with(e, <<"4", "2", "1">>) \/ starts_with(e, <<"4", "5", "2">>)

\* Faulty variant: a set flag stops the retries of a message being sent.
should_retry_unless_cancelled(a, e) ==
    ~cancel /\ a + 1 < MAX_ATTEMPTS /\ is_transient_error(e)

\* Faulty variant: every failed attempt but the last is retried.
should_retry_any_error(a, e) == a + 1 < MAX_ATTEMPTS

\* Faulty variant: a transient error is retried after the last attempt too.
should_retry_every_transient(a, e) == is_transient_error(e)

\* The guard of the retry arm of send_with_retry, with attempt = a.
should_retry(a, e) == a + 1 < MAX_ATTEMPTS /\ is_transient_error(e)

\* Faulty variant: one permit more than the profile allows.
semaphore_size_plus_one(p) == p + 1

\* Semaphore::new(profile.parallelism.max(1))
semaphore_size(p) == IF p >= 1 THEN p ELSE 1

\* Faulty variant: the checks never see the flag.
is_cancelled_never == FALSE

\* cancel.as_ref().is_some_and(|c| c.load(Ordering::Relaxed))
is_cancelled == cancel

\* Faulty variant: completed counts the results pushed so far, not this one.
SendProgress_off_by_one(r) ==
    [completed |-> Len(results), total |-> total,
     entry_index |-> r.entry_index, recipient |-> r.recipient,
     success |-> r.success, error |-> r.error]

\* Faulty variant: completed runs one ahead of the results pushed.
SendProgress_one_ahead(r) ==
    [completed |-> Len(results) + 2, total |-> total,
     entry_index |-> r.entry_index, recipient |-> r.recipient,
     success |-> r.success, error |-> r.error]

\* The SendProgress built from result r before it is pushed.
SendProgress(r) ==
    [completed |-> Len(results) + 1, total |-> total,
     entry_index |-> r.entry_index, recipient |-> r.recipient,
     success |-> r.success, error |-> r.error]

\* Faulty variant: the collection loop takes whichever uncollected task
\* returned first (completion order, as a FuturesUnordered would).
awaited_completion_order ==
    LET collected == {results[k].entry_index : k \in 1 .. Len(results)}
        ready == {k \in 1 .. Len(terminal) :
                    /\ terminal[k] \notin collected
                    /\ task[terminal[k]] = "returned"}
    IN  IF ready = {}
        THEN handles[Len(results) + 1]
        ELSE terminal[CHOOSE k \in ready : \A m \in ready : k <= m]

\* Faulty variant: the handles are awaited from the last one spawned.
awaited_last_first == handles[Len(handles) - Len(results)]

\* The JoinHandle the collection loop awaits next: submission order.
awaited == handles[Len(results) + 1]

\* Faulty variant: the task sends without looking at the build error.
message_of_unchecked(i) == "Ok"

\* What the spawned task matches on: its pre-built message_result.
message_of(i) == message_result[i]

\* ------------------------------------------------------------------ init
\* No call has been made: SendState::default() and an idle dispatcher.
IdleDispatcher ==
    /\ total = 0
    /\ message_result = <<>>
    /\ transport_ok = TRUE
    /\ parallelism = 0
    /\ on_progress = FALSE
    /\ smtp_errors = {}
    /\ cancel_at = 0
    /\ pc = "idle"
    /\ next = 0
    /\ handles = <<>>
    /\ cancelled_results = <<>>
    /\ task = <<>>
    /\ attempt = <<>>
    /\ last_err = <<>>
    /\ ret = <<>>
    /\ permits = 0
    /\ results = <<>>
    /\ events = <<>>
    /\ active = FALSE
    /\ call = [c \in Callers |-> "idle"]
    /\ outcome = [c \in Callers |-> "none"]
    /\ built = {}
    /\ sent = <<>>
    /\ acquired = {}
    /\ passed = {}
    /\ terminal = <<>>
    /\ interrupted = {}
    /\ cancel_requested = FALSE
    /\ entry_indices = <<>>
    /\ all_contexts = <<>>
    /\ index_map = <<>>
    /\ pre_send_failures = <<>>
    /\ batch_report = <<>>

\* Nothing has been rendered or checked.
NotRendered ==
    /\ mail = <<>>
    /\ oracle = <<>>
    /\ rendered = <<>>
    /\ evaluated = <<>>
    /\ mailboxes = {}
    /\ files = {}
    /\ issues = <<>>

\* No call has been made and no template is loaded.
Idle ==
    /\ IdleDispatcher
    /\ template = <<>>
    /\ declared = <<>>
    /\ iteration = <<>>
    /\ sources = <<>>
    /\ render_results = <<>>
    /\ stage = "none"
    /\ lenient = <<>>
    /\ strict = <<>>
    /\ validation = <<>>
    /\ NotRendered
    /\ accepted = <<>>

\* A caller of the library shares a flag in either state.
Init == Idle /\ cancel \in BOOLEAN

\* SendState::default(): cancel_flag is false.
InitBatch == Idle /\ cancel = FALSE

\* Rows whose task is inside send_with_retry (an attempt or a retry delay).
InSend == {i \in Rows : task[i] \in {"sending", "sleeping"}}

\* --------------------------------------------------- the cancel flag
\* cancel.store(true) by whoever shares the flag with the dispatcher.
SetCancel ==
    /\ ~cancel
    /\ cancel' = TRUE
    /\ interrupted' = interrupted \cup InSend
    /\ UNCHANGED <<pipeline, inputs, pc, next, handles, cancelled_results, task, attempt,
                   last_err, ret, permits, results, events, built, sent,
                   acquired,
                   passed, terminal, batch>>

\* cancel.store(false) by whoever shares the flag with the dispatcher.
ClearCancel ==
    /\ cancel
    /\ cancel' = FALSE
    /\ interrupted' = {}
    /\ UNCHANGED <<pipeline, inputs, pc, next, handles, cancelled_results, task, attempt,
                   last_err, ret, permits, results, events, built, sent,
                   acquired,
                   passed, terminal, batch>>

\* ------------------------------------------- send_all_with_progress
\* send_all_with_progress is called with at most n emails, with or without a
\* sink (sinks), for a server that answers with the errors errs.
invoke(n, sinks, errs) ==
    /\ total' \in 0 .. n
    /\ message_result' \in [0 .. (total' - 1) -> {"Ok", "Err"}]
    /\ transport_ok' \in BOOLEAN
    /\ parallelism' \in 0 .. MaxParallelism
    /\ on_progress' \in sinks
    /\ smtp_errors' = errs
    /\ pc' = "start"
    /\ next' = 0
    /\ handles' = <<>>
    /\ cancelled_results' = <<>>
    /\ task' = [i \in 0 .. (total' - 1) |-> "unspawned"]
    /\ attempt' = [i \in 0 .. (total' - 1) |-> 0]
    /\ last_err' = [i \in 0 .. (total' - 1) |-> None]
    /\ ret' = [i \in 0 .. (total' - 1) |-> None]
    /\ permits' = 0
    /\ results' = <<>>
    /\ events' = <<>>
    /\ built' = {}
    /\ sent' = [i \in 0 .. (total' - 1) |-> <<>>]
    /\ acquired' = {}
    /\ passed' = {}
    /\ terminal' = <<>>
    /\ interrupted' = {}
    /\ UNCHANGED pipeline

\* A direct call of the library function (send_all passes no sink, no flag).
Invoke ==
    /\ pc = "idle"
    /\ invoke(MaxEmails, BOOLEAN, FewSendErrors)
    /\ cancel_at' = 0
    /\ UNCHANGED <<cancel, batch>>

\* A direct call with a small batch and every error text.
InvokeRetry ==
    /\ pc = "idle"
    /\ invoke(MaxRetryEmails, BOOLEAN, SendErrors)
    /\ cancel_at' = 0
    /\ UNCHANGED <<cancel, batch>>

\* Faulty variant: the rows after the first are left out of the report.
transport_failure_results_first_only ==
    [k \in 1 .. (IF total > 0 THEN 1 ELSE 0) |->
        SendResult(k - 1, FALSE, Some(ConnectErrText))]

\* `emails.iter().enumerate().map(|(i, email)| SendResult { .. }).collect()`
\* with reason = e.to_string() of the build_transport error.
transport_failure_results ==
    [k \in 1 .. total |-> SendResult(k - 1, FALSE, Some(ConnectErrText))]

\* build_transport failed: one failed result per email, no progress call.
TransportFailed ==
    /\ pc = "start"
    /\ ~transport_ok
    /\ results' = transport_failure_results
    /\ pc' = "done"
    /\ UNCHANGED <<pipeline, inputs, cancel, next, handles, cancelled_results, task, attempt,
                   last_err, ret, permits, events, history, batch>>

\* build_transport succeeded: pre_built is computed, the semaphore created.
TransportBuilt ==
    /\ pc = "start"
    /\ transport_ok
    /\ built' = Rows
    /\ permits' = semaphore_size(parallelism)
    /\ pc' = "running"
    /\ UNCHANGED <<pipeline, inputs, cancel, next, handles, cancelled_results, task, attempt,
                   last_err, ret, results, events, sent, acquired, passed,
                   terminal, interrupted, batch>>

\* Faulty variant: a skipped row is not remembered in cancelled_results.
skip_unrecorded(i) ==
    /\ terminal' = Append(terminal, i)
    /\ UNCHANGED <<cancelled_results, handles, task>>

\* The pre-spawn check found the flag set: the row is skipped.
skip(i) ==
    /\ cancelled_results' =
          Append(cancelled_results, SendResult(i, FALSE, Some(CancelledText)))
    /\ terminal' = Append(terminal, i)
    /\ UNCHANGED <<handles, task>>

\* One iteration of `for (entry_index, recipient, message_result) in pre_built`.
SpawnOrSkip ==
    /\ pc = "running"
    /\ next < total
    /\ next' = next + 1
    /\ IF is_cancelled
       THEN skip(next)
       ELSE /\ handles' = Append(handles, next)
            /\ task' = [task EXCEPT ![next] = "queued"]
            /\ UNCHANGED <<cancelled_results, terminal>>
    /\ UNCHANGED <<pipeline, inputs, cancel, pc, attempt, last_err, ret, permits, results,
                   events, built, sent,
                   acquired, passed, interrupted, batch>>

\* Faulty variant: the permit is not given back when the task ends.
task_return_keeps_permit(i, r) ==
    /\ ret' = [ret EXCEPT ![i] = Some(r)]
    /\ task' = [task EXCEPT ![i] = "returned"]
    /\ permits' = permits
    /\ terminal' = Append(terminal, i)

\* The task returns `r`: the JoinHandle is ready and _permit is dropped.
task_return(i, r) ==
    /\ ret' = [ret EXCEPT ![i] = Some(r)]
    /\ task' = [task EXCEPT ![i] = "returned"]
    /\ permits' = permits + 1
    /\ terminal' = Append(terminal, i)

\* sem.acquire().await completes for the task of row i.
Acquire(i) ==
    /\ task[i] = "queued"
    /\ permits > 0
    /\ permits' = permits - 1
    /\ task' = [task EXCEPT ![i] = "permit"]
    /\ acquired' = acquired \cup {i}
    /\ UNCHANGED <<pipeline, inputs, cancel, pc, next, handles, cancelled_results, attempt,
                   last_err, ret, results, events, built, sent, passed, terminal,
                   interrupted, batch>>

\* The post-permit cancellation check and the match on message_result.
AfterPermit(i) ==
    /\ task[i] = "permit"
    /\ IF is_cancelled
       THEN /\ task_return(i, SendResult(i, FALSE, Some(CancelledText)))
            /\ UNCHANGED <<passed>>
       ELSE /\ passed' = passed \cup {i}
            /\ IF message_of(i) = "Ok"
               THEN /\ task' = [task EXCEPT ![i] = "sending"]
                    /\ UNCHANGED <<ret, permits, terminal>>
               ELSE task_return(i, SendResult(i, FALSE, Some(BuildErrText)))
    /\ UNCHANGED <<pipeline, inputs, cancel, pc, next, handles, cancelled_results, attempt,
                   last_err, results, events, built, sent,
                   acquired, interrupted, batch>>

\* transport.send(message.clone()).await completes with outcome o inside
\* send_with_retry: None is Ok(_), Some(e) is Err(e).
SendAttempt(i, o) ==
    /\ task[i] = "sending"
    /\ sent' = [sent EXCEPT ![i] = Append(@, o)]
    /\ IF o = None
       THEN /\ task_return(i, SendResult(i, TRUE, None))
            /\ UNCHANGED <<last_err>>
       ELSE IF should_retry(attempt[i], o[1])
            THEN /\ last_err' = [last_err EXCEPT ![i] = o]
                 /\ task' = [task EXCEPT ![i] = "sleeping"]
                 /\ UNCHANGED <<ret, permits, terminal>>
            ELSE /\ task_return(i, SendResult(i, FALSE, o))
                 /\ UNCHANGED <<last_err>>
    /\ UNCHANGED <<pipeline, inputs, cancel, pc, next, handles, cancelled_results, attempt,
                   results, events, built, acquired, passed, interrupted, batch>>

\* tokio::time::sleep(RETRY_DELAY).await completes: the next iteration of
\* `for attempt in 0..MAX_ATTEMPTS`, or, the range being exhausted, the
\* statement after the loop, `Err(last_err.unwrap())`.
RetryWake(i) ==
    /\ task[i] = "sleeping"
    /\ attempt' = [attempt EXCEPT ![i] = @ + 1]
    /\ IF attempt[i] + 1 < MAX_ATTEMPTS
       THEN /\ task' = [task EXCEPT ![i] = "sending"]
            /\ UNCHANGED <<ret, permits, terminal>>
       ELSE task_return(i, SendResult(i, FALSE, last_err[i]))
    /\ UNCHANGED <<pipeline, inputs, cancel, pc, next, handles, cancelled_results, last_err,
                   results, events, built, sent, acquired, passed, interrupted, batch>>

\* What the sink of test_cancel_mid_batch does with event p:
\* `if p.completed >= 3 { cancel_clone.store(true, ..) }`, 3 being cancel_at.
sink_sets_cancel(p) == cancel_at > 0 /\ p.completed >= cancel_at

\* The sink, if any, is called with the progress of result r; r is pushed.
report(r) ==
    /\ events' = IF on_progress THEN Append(events, SendProgress(r)) ELSE events
    /\ results' = Append(results, r)
    /\ IF on_progress /\ sink_sets_cancel(SendProgress(r))
       THEN /\ cancel' = TRUE
            /\ interrupted' = IF cancel THEN interrupted ELSE interrupted \cup InSend
       ELSE UNCHANGED <<cancel, interrupted>>

\* One iteration of `for handle in handles`: handle.await is ready.
Collect ==
    /\ pc = "running"
    /\ next = total
    /\ Len(results) < Len(handles)
    /\ task[awaited] = "returned"
    /\ report(ret[awaited][1])
    /\ UNCHANGED <<pipeline, inputs, pc, next, handles, cancelled_results, task, attempt,
                   last_err, ret, permits, built, sent, acquired, passed,
                   terminal, batch>>

\* One iteration of `for cr in cancelled_results`.
AppendCancelled ==
    /\ pc = "running"
    /\ next = total
    /\ Len(results) >= Len(handles)
    /\ Len(results) < Len(handles) + Len(cancelled_results)
    /\ report(cancelled_results[Len(results) - Len(handles) + 1])
    /\ UNCHANGED <<pipeline, inputs, pc, next, handles, cancelled_results, task, attempt,
                   last_err, ret, permits, built, sent, acquired, passed,
                   terminal, batch>>

\* `SendReport { results }` is returned.
Return ==
    /\ pc = "running"
    /\ next = total
    /\ Len(results) = Len(handles) + Len(cancelled_results)
    /\ pc' = "done"
    /\ UNCHANGED <<pipeline, inputs, cancel, next, handles, cancelled_results, task, attempt,
                   last_err, ret, permits, results, events, history, batch>>

\* The steps of one run of send_all_with_progress and of its tasks.
Dispatch ==
    \/ TransportFailed
    \/ TransportBuilt
    \/ SpawnOrSkip
    \/ \E i \in Rows : Acquire(i)
    \/ \E i \in Rows : AfterPermit(i)
    \/ \E i \in Rows : \E o \in {None} \cup {Some(e) : e \in smtp_errors} : SendAttempt(i, o)
    \/ \E i \in Rows : RetryWake(i)
    \/ Collect
    \/ AppendCancelled
    \/ Return

Next ==
    \/ Invoke
    \/ SetCancel
    \/ ClearCancel
    \/ Dispatch

Spec == Init /\ [][Next]_vars

NextRetry ==
    \/ InvokeRetry
    \/ SetCancel
    \/ ClearCancel
    \/ Dispatch

SpecRetry == Init /\ [][NextRetry]_vars

\* test_cancel_mid_batch: parallelism 1, a server that accepts every message,
\* messages that all build, a flag initially unset that only the sink sets,
\* from its cancel_at-th event on.
InvokeSink ==
    /\ pc = "idle"
    /\ invoke(MaxSinkEmails, {TRUE}, {})
    /\ total' >= 2
    /\ transport_ok'
    /\ parallelism' = 1
    /\ \A i \in 0 .. (total' - 1) : message_result'[i] = "Ok"
    /\ cancel_at' \in 1 .. (total' - 1)
    /\ UNCHANGED <<cancel, batch>>

InitSink == Idle /\ cancel = FALSE

\* A direct call without a sink, for a server that answers some attempts
\* with a transient error.
InvokeLive ==
    /\ pc = "idle"
    /\ invoke(MaxLiveEmails, {FALSE}, {Err421})
    /\ cancel_at' = 0
    /\ UNCHANGED <<cancel, batch>>

NextLive ==
    \/ InvokeLive
    \/ SetCancel
    \/ ClearCancel
    \/ Dispatch

\* The runtime runs every task that can make a step, every send attempt and
\* every retry delay ends, and the caller polls the future it awaits: a
\* step of the dispatch that stays possible is eventually taken.
SpecLive == Init /\ [][NextLive]_vars /\ WF_vars(Dispatch)

\* No transport failure, no send error and no row skipped before spawning:
\* the flag is first set in the collection loop.
NextSink ==
    \/ InvokeSink
    \/ TransportBuilt
    \/ SpawnOrSkip
    \/ \E i \in Rows : Acquire(i)
    \/ \E i \in Rows : AfterPermit(i)
    \/ \E i \in Rows : SendAttempt(i, None)
    \/ Collect
    \/ Return

SpecSink == InitSink /\ [][NextSink]_vars

\* --------------------------------------------- send_batch, cancel_send
\* Faulty variant: the call goes on whatever the guard held.
BatchEnter_unguarded(c) ==
    /\ call[c] = "idle"
    /\ active' = TRUE
    /\ call' = [call EXCEPT ![c] = "guard"]
    /\ cancel_requested' = FALSE
    /\ UNCHANGED <<outcome>>
    /\ UNCHANGED <<pipeline, inputs, cancel, pc, next, handles, cancelled_results, task,
                   attempt, last_err, ret, permits, results, events, history,
                   request, batch_report>>

\* `if send_state.active.swap(true, SeqCst) { return Err(..) }`
BatchEnter(c) ==
    /\ call[c] = "idle"
    /\ IF active
       THEN /\ call' = [call EXCEPT ![c] = "returned"]
            /\ outcome' = [outcome EXCEPT ![c] = "busy"]
            /\ UNCHANGED <<active, cancel_requested>>
       ELSE /\ active' = TRUE
            /\ call' = [call EXCEPT ![c] = "guard"]
            /\ cancel_requested' = FALSE
            /\ UNCHANGED <<outcome>>
    /\ UNCHANGED <<pipeline, inputs, cancel, pc, next, handles, cancelled_results, task,
                   attempt, last_err, ret, permits, results, events, history,
                   request, batch_report>>

\* `send_state.cancel_flag.store(false, SeqCst)`
BatchReset(c) ==
    /\ call[c] = "guard"
    /\ cancel' = FALSE
    /\ interrupted' = {}
    /\ call' = [call EXCEPT ![c] = "inner"]
    /\ UNCHANGED <<pipeline, inputs, pc, next, handles, cancelled_results, task, attempt,
                   last_err, ret, permits, results, events, built, sent,
                   acquired,
                   passed, terminal, active, outcome, cancel_requested,
                   request, batch_report>>

\* send_batch_inner returns Err from one of its `?` before dispatching.
InnerFail(c) ==
    /\ call[c] = "inner"
    /\ call' = [call EXCEPT ![c] = "release"]
    /\ outcome' = [outcome EXCEPT ![c] = "err"]
    /\ UNCHANGED <<pipeline, inputs, cancel, pc, next, handles, cancelled_results, task,
                   attempt, last_err, ret, permits, results, events, history,
                   active, cancel_requested, request, batch_report>>

\* A join error and a render error, each as its e.to_string(), and a
\* rendered email.
JoinErrText == <<"j">>
RenderErrText == <<"r">>
Rendered == "email"

\* A context, given as what render_context returns for it.
Context(render) == Ok(render)

\* `match entry_indices { Some(subset) => subset.to_vec(),
\*                        None => (0..all_contexts.len()).collect() }`
indices_of(subset, contexts) ==
    IF subset = None THEN [k \in 1 .. Len(contexts) |-> k - 1] ELSE subset[1]

\* `all_contexts.get(idx)` is Some for every requested index.
in_range(indices, contexts) ==
    \A k \in 1 .. Len(indices) : indices[k] < Len(contexts)

\* The row at idx has a context and render_context returns an email for it.
is_rendered(idx, contexts) ==
    is_ok(contexts[idx + 1]) /\ is_ok(contexts[idx + 1][2])

\* The loop `for &idx in &indices`: the index_map it builds (emails has the
\* rendered email of each of its elements).
index_map_of(indices, contexts) ==
    SelectSeq(indices, LAMBDA idx : is_rendered(idx, contexts))

\* The same loop: the pre_send_failures it builds.
pre_send_failures_of(indices, contexts) ==
    LET failed == SelectSeq(indices, LAMBDA idx : ~is_rendered(idx, contexts))
    IN  [k \in 1 .. Len(failed) |->
            [entry_index |-> failed[k], recipient |-> <<>>, success |-> FALSE,
             error |-> IF is_err(contexts[failed[k] + 1])
                       THEN Some(JoinErrText) ELSE Some(RenderErrText)]]

\* The requests of the runs of the guard: every row joins and renders, no
\* subset is given.
PlainRequests ==
    {[all_contexts |-> [k \in 1 .. n |-> Context(Ok(Rendered))],
      entry_indices |-> None] : n \in 0 .. MaxEmails}

\* send_batch_inner with one of the requests: steps 3 to 7, up to the call
\* of send_all_with_progress with the rendered emails, the flag and a sink.
\* A requested index out of range makes it return Err.
inner_dispatch(c, requests, errs) ==
    /\ call[c] = "inner"
    /\ \E request_in \in requests :
          /\ entry_indices' = request_in.entry_indices
          /\ all_contexts' = request_in.all_contexts
    /\ LET indices == indices_of(entry_indices', all_contexts')
       IN  IF in_range(indices, all_contexts')
           THEN /\ index_map' = index_map_of(indices, all_contexts')
                /\ pre_send_failures' = pre_send_failures_of(indices, all_contexts')
                /\ call' = [call EXCEPT ![c] = "dispatch"]
                /\ invoke(Len(index_map'), {TRUE}, errs)
                /\ total' = Len(index_map')
                /\ cancel_at' = 0
                /\ UNCHANGED <<outcome>>
           ELSE /\ index_map' = <<>>
                /\ pre_send_failures' = <<>>
                /\ call' = [call EXCEPT ![c] = "release"]
                /\ outcome' = [outcome EXCEPT ![c] = "err"]
                /\ UNCHANGED <<pipeline, inputs, pc, next, handles, cancelled_results,
                               task, attempt, last_err, ret, permits, results, events,
                               history>>
    /\ batch_report' = <<>>
    /\ UNCHANGED <<cancel, active, cancel_requested>>

\* send_batch_inner calls send_all_with_progress with the flag and a sink.
InnerDispatch(c) == inner_dispatch(c, PlainRequests, BatchSendErrors)

\* Faulty variant: the position in the dispatched list is taken for the
\* original index.
original_idx_unmapped(r) == r.entry_index

\* `index_map.get(r.entry_index).copied().unwrap_or(r.entry_index)`
original_idx(r) ==
    IF r.entry_index < Len(index_map) THEN index_map[r.entry_index + 1] ELSE r.entry_index

\* Step 8 of send_batch_inner: the pre-send failures, then the send results
\* under their original indices, and the counts.
SendBatchReport ==
    LET merged == pre_send_failures
                  \o [k \in 1 .. Len(results) |->
                         [results[k] EXCEPT !.entry_index = original_idx(results[k])]]
    IN  [total |-> Len(indices_of(entry_indices, all_contexts)),
         success_count |-> Len(SelectSeq(merged, LAMBDA r : r.success)),
         failure_count |-> Len(SelectSeq(merged, LAMBDA r : ~r.success)),
         results |-> merged]

\* send_all_with_progress returned; send_batch_inner returns Ok(report).
InnerReport(c) ==
    /\ call[c] = "dispatch"
    /\ pc = "done"
    /\ call' = [call EXCEPT ![c] = "release"]
    /\ outcome' = [outcome EXCEPT ![c] = "ok"]
    /\ batch_report' = SendBatchReport
    /\ UNCHANGED <<pipeline, inputs, cancel, pc, next, handles, cancelled_results, task,
                   attempt, last_err, ret, permits, results, events, history,
                   active, cancel_requested, request>>

\* `send_state.active.store(false, SeqCst); result`
BatchRelease(c) ==
    /\ call[c] = "release"
    /\ active' = FALSE
    /\ call' = [call EXCEPT ![c] = "returned"]
    /\ UNCHANGED <<pipeline, inputs, cancel, pc, next, handles, cancelled_results, task,
                   attempt, last_err, ret, permits, results, events, history,
                   outcome, cancel_requested, request, batch_report>>

\* cancel_send: `send_state.cancel_flag.store(true, SeqCst)`
CancelSend ==
    /\ cancel' = TRUE
    /\ cancel_requested' = (cancel_requested \/ active)
    /\ interrupted' = interrupted \cup InSend
    /\ UNCHANGED <<pipeline, inputs, pc, next, handles, cancelled_results, task, attempt,
                   last_err, ret, permits, results, events, built, sent,
                   acquired,
                   passed, terminal, active, call, outcome, request, batch_report>>

NextBatch ==
    \/ \E c \in Callers : BatchEnter(c)
    \/ \E c \in Callers : BatchReset(c)
    \/ \E c \in Callers : InnerFail(c)
    \/ \E c \in Callers : InnerDispatch(c)
    \/ \E c \in Callers : InnerReport(c)
    \/ \E c \in Callers : BatchRelease(c)
    \/ CancelSend
    \/ Dispatch

SpecBatch == InitBatch /\ [][NextBatch]_vars

\* The requests of the runs that select entries: at most MaxBatchRows
\* primary rows, each with a join error, a render error or an email, and
\* either no subset or a list of at most MaxBatchRows indices, which may
\* repeat an index or name one past the last row.
SubsetRequests ==
    LET outcomes == {Err(JoinErrText), Context(Err(RenderErrText)), Context(Ok(Rendered))}
        contexts == UNION {[1 .. n -> outcomes] : n \in 0 .. MaxBatchRows}
        subsets(n) == UNION {[1 .. len -> 0 .. n] : len \in 0 .. MaxBatchRows}
    IN  {[all_contexts |-> ctxs, entry_indices |-> sel] :
            ctxs \in contexts,
            sel \in {None} \cup {Some(subset) : subset \in subsets(MaxBatchRows)}}

\* send_batch_inner with a selection of entries, for a server that accepts
\* every message.
InnerSubset(c) == inner_dispatch(c, SubsetRequests, {})

\* One call of send_batch, with cancel_send at any time.
NextReport ==
    \/ BatchEnter(1)
    \/ BatchReset(1)
    \/ InnerSubset(1)
    \/ InnerReport(1)
    \/ BatchRelease(1)
    \/ CancelSend
    \/ TransportFailed
    \/ TransportBuilt
    \/ SpawnOrSkip
    \/ \E i \in Rows : Acquire(i)
    \/ \E i \in Rows : AfterPermit(i)
    \/ \E i \in Rows : SendAttempt(i, None)
    \/ Collect
    \/ AppendCancelled
    \/ Return

SpecReport == InitBatch /\ [][NextReport]_vars

\* ============================================================ join, validate
\* Row objects have two fields: "id", which is also the only join key, and
\* "name", which is different in every row of a row-set.
\* A string that is taken apart (a join reference "ns.field") is a sequence
\* of tokens, "." being one of them.

\* The namespaces a template declares.
Namespaces == {"p", "a", "b"}
\* The values of the field "id".
FieldValues == {1, 2}

\* ----------------------------------------------------- serde_json::Value
\* The row {"id": v, "name": k}, and a row that is not an object (a number,
\* say).
ObjectRow(v, k) == [obj |-> TRUE, id |-> v, name |-> k]
ScalarRow == [obj |-> FALSE, id |-> 0, name |-> 0]

\* Value::Array(rows), a Value that is neither array nor object, and the
\* Value of one row.
ArrayValue(rows) == [kind |-> "array", rows |-> rows]
ScalarValue == [kind |-> "scalar", rows |-> <<>>]
RowValue(row) == IF row.obj THEN [kind |-> "object", rows |-> <<row>>] ELSE ScalarValue

\* Faulty variant: a namespace without data counts as an empty array.
as_array_or_empty(v) ==
    IF v = None THEN Some(<<>>)
    ELSE IF v[1].kind = "array" THEN Some(v[1].rows) ELSE None

\* Value::as_array after HashMap::get: `sources.get(name).and_then(Value::as_array)`
as_array(v) ==
    IF v = None THEN None
    ELSE IF v[1].kind = "array" THEN Some(v[1].rows) ELSE None

\* Value::get with a string key: Some only for a field of an object.
value_get(v, key) ==
    IF v.kind = "object" /\ key = <<"id">> THEN Some(v.rows[1].id)
    ELSE IF v.kind = "object" /\ key = <<"name">> THEN Some(v.rows[1].name)
    ELSE None

\* Map::get on the context, the key being a token sequence.
ctx_get(ctx, key) ==
    IF Len(key) = 1 /\ key[1] \in Namespaces THEN ctx[key[1]] ELSE None

\* str::split_once('.')
split_once(str) ==
    LET dots == {k \in 1 .. Len(str) : str[k] = "."}
    IN  IF dots = {} THEN None
        ELSE LET k == CHOOSE d \in dots : \A e \in dots : d <= e
             IN  Some(<<SubSeq(str, 1, k - 1), SubSeq(str, k + 1, Len(str))>>)

\* ------------------------------------------------------------- MailnirError
NoPrimarySource ==
    [kind |-> "NoPrimarySource", namespace |-> "", entry_index |-> 0, match_count |-> 0]
InvalidDataShape(path) ==
    [kind |-> "InvalidDataShape", namespace |-> path, entry_index |-> 0, match_count |-> 0]
JoinMissingMatch(ns, i) ==
    [kind |-> "JoinMissingMatch", namespace |-> ns, entry_index |-> i, match_count |-> 0]
JoinAmbiguousMatch(ns, i, n) ==
    [kind |-> "JoinAmbiguousMatch", namespace |-> ns, entry_index |-> i, match_count |-> n]

\* ------------------------------------------------------------- SourceConfig
PrimarySource == [primary |-> Some(TRUE), join |-> None, many |-> None]
GlobalSource == [primary |-> None, join |-> None, many |-> None]
\* `join: {id: ns.id}`, with and without `many: true`.
JoinOne(ns) ==
    [primary |-> None, join |-> Some([k \in {"id"} |-> <<ns, ".", "id">>]), many |-> None]
JoinMany(ns) ==
    [primary |-> None, join |-> Some([k \in {"id"} |-> <<ns, ".", "id">>]), many |-> Some(TRUE)]
\* `join: {id: ns}`: a reference without a dot.
JoinNoDot(ns) ==
    [primary |-> None, join |-> Some([k \in {"id"} |-> <<ns>>]), many |-> None]

\* ----------------------------------------------------------------- join
\* fn predicates_match(row, join_map, ctx)
predicates_match(row, join_map, ctx) ==
    \A join_key \in DOMAIN join_map :
        LET split == split_once(join_map[join_key])
        IN  /\ split # None
            /\ LET ref_ns == split[1][1]
                   ref_field == split[1][2]
                   ns == ctx_get(ctx, ref_ns)
                   expected == IF ns = None THEN None ELSE value_get(ns[1], ref_field)
                   actual == value_get(RowValue(row), <<join_key>>)
               IN  expected # None /\ actual # None /\ expected = actual

\* `template.sources.iter().find(|(_, cfg)| cfg.primary == Some(true))`
primary_name(iter) ==
    LET found == SelectSeq(iter, LAMBDA n : template[n].primary = Some(TRUE))
    IN  IF found = <<>> THEN None ELSE Some(found[1])

\* global_names of build_contexts_lenient
global_names(iter, pn) ==
    SelectSeq(iter, LAMBDA n : /\ n # pn
                               /\ template[n].primary # Some(TRUE)
                               /\ template[n].join = None)

\* secondary_sources_cfg of build_contexts_lenient
secondary_sources_cfg(iter, pn) ==
    SelectSeq(iter, LAMBDA n : n # pn /\ template[n].join # None)

\* The elements of a sequence.
elements(seq) == {seq[k] : k \in 1 .. Len(seq)}

\* `secondary_array.iter().filter(|row| predicates_match(row, join_map, &ctx)).collect()`
matches_of(secondary_array, join_map, ctx) ==
    SelectSeq(secondary_array, LAMBDA row : predicates_match(row, join_map, ctx))

\* Faulty variant: an ambiguous match binds the first matching row.
bind_one_first_match(ns_name, entry_index, matches) ==
    IF Len(matches) = 0
    THEN Err(JoinMissingMatch(ns_name, entry_index))
    ELSE Ok(RowValue(matches[1]))

\* `match matches.len()` for cardinality one: the value to bind, or the error.
bind_one(ns_name, entry_index, matches) ==
    IF Len(matches) = 0
    THEN Err(JoinMissingMatch(ns_name, entry_index))
    ELSE IF Len(matches) = 1
         THEN Ok(RowValue(matches[1]))
         ELSE Err(JoinAmbiguousMatch(ns_name, entry_index, Len(matches)))

\* Faulty variant: an empty match list of a `many` join is a missing match.
bind_many_nonempty(ns_name, entry_index, matches) ==
    IF Len(matches) = 0
    THEN Err(JoinMissingMatch(ns_name, entry_index))
    ELSE Ok(ArrayValue(matches))

\* `Value::Array(matches.into_iter().cloned().collect())` for `many: true`.
bind_many(ns_name, entry_index, matches) == Ok(ArrayValue(matches))

\* The loop `for &(ns_name, ns_cfg, secondary_array) in secondary_sources`
\* of build_single_context, from its k-th iteration on.
RECURSIVE join_from(_, _, _, _, _)
join_from(ctx, k, entry_index, secondary_sources, srcs) ==
    IF k > Len(secondary_sources)
    THEN Ok(ctx)
    ELSE LET ns_name == secondary_sources[k]
             ns_cfg == template[ns_name]
             matches == matches_of(as_array(srcs[ns_name])[1], ns_cfg.join[1], ctx)
             bound == IF ns_cfg.many = Some(TRUE)
                      THEN bind_many(ns_name, entry_index, matches)
                      ELSE bind_one(ns_name, entry_index, matches)
         IN  IF is_err(bound)
             THEN bound
             ELSE join_from([ctx EXCEPT ![ns_name] = Some(bound[2])], k + 1,
                            entry_index, secondary_sources, srcs)

\* fn build_single_context
build_single_context(pn, primary_entry, entry_index, globals, secondary_sources, srcs) ==
    LET ctx == [n \in Namespaces |->
                  IF n = pn THEN Some(RowValue(primary_entry))
                  ELSE IF n \in elements(globals) THEN srcs[n]
                  ELSE None]
    IN  join_from(ctx, 1, entry_index, secondary_sources, srcs)

\* Faulty variant: the loop stops after the first row whose join fails.
build_all_until_failure(pn, primary_array, globals, secondary_sources, srcs) ==
    LET one(k) == build_single_context(pn, primary_array[k], k - 1, globals,
                                       secondary_sources, srcs)
        failing == {k \in 1 .. Len(primary_array) : is_err(one(k))}
        last == IF failing = {} THEN Len(primary_array)
                ELSE CHOOSE k \in failing : \A m \in failing : k <= m
    IN  [k \in 1 .. last |-> one(k)]

\* `for (entry_index, primary_entry) in primary_array.iter().enumerate()`:
\* the result of build_single_context for every row is pushed.
build_all(pn, primary_array, globals, secondary_sources, srcs) ==
    [k \in 1 .. Len(primary_array) |->
        build_single_context(pn, primary_array[k], k - 1, globals,
                             secondary_sources, srcs)]

\* fn build_contexts_lenient, template.sources iterating in the order iter.
build_contexts_lenient(iter, srcs) ==
    LET pn == primary_name(iter)
    IN  IF pn = None THEN Err(NoPrimarySource)
        ELSE
        LET primary_array == as_array(srcs[pn[1]])
            secondary_sources == secondary_sources_cfg(iter, pn[1])
            malformed == SelectSeq(secondary_sources, LAMBDA n : as_array(srcs[n]) = None)
        IN  IF primary_array = None THEN Err(InvalidDataShape(pn[1]))
            ELSE IF malformed # <<>> THEN Err(InvalidDataShape(malformed[1]))
            ELSE Ok(build_all(pn[1], primary_array[1], global_names(iter, pn[1]),
                              secondary_sources, srcs))

\* Faulty variant: collecting keeps the last error met.
RECURSIVE collect_last_error(_)
collect_last_error(rs) ==
    IF rs = <<>> THEN Ok(<<>>)
    ELSE LET rest == collect_last_error(Tail(rs))
         IN  IF is_err(rest) THEN rest
             ELSE IF is_err(Head(rs)) THEN Head(rs)
             ELSE Ok(<<Head(rs)[2]>> \o rest[2])

\* `.into_iter().collect::<Result<Vec<_>>>()`: the first Err ends the
\* iteration and is the result.
RECURSIVE collect(_)
collect(rs) ==
    IF rs = <<>> THEN Ok(<<>>)
    ELSE IF is_err(Head(rs)) THEN Head(rs)
    ELSE LET rest == collect(Tail(rs))
         IN  IF is_err(rest) THEN rest ELSE Ok(<<Head(rs)[2]>> \o rest[2])

\* fn build_contexts: `build_contexts_lenient(template, sources)?.into_iter().collect()`
build_contexts(iter, srcs) ==
    LET per_entry == build_contexts_lenient(iter, srcs)
    IN  IF is_err(per_entry) THEN per_entry ELSE collect(per_entry[2])


\* ================================================================== render
\* Texts are sequences of characters.
BlankText == <<" ">>
GoodAddress == <<"a", "@", "b">>
BadAddress == <<"n", "o">>
\* `style:` of a template, and the content of its stylesheet file.
CssText == <<"p", "{", "}">>
\* The wrapper of apply_css.
DivOpen == <<"<", "d", "i", "v", ">">>
DivClose == <<"<", "/", "d", "i", "v", ">">>
\* The opening tag after a rule for `div` was inlined.
DivStyled == <<"<", "d", "i", "v", " ", "s", ">">>

\* char::is_whitespace for the characters of the texts.
is_whitespace(ch) == ch \in {" ", "\n"}

\* str::trim
RECURSIVE trim_start(_)
trim_start(str) ==
    IF str # <<>> /\ is_whitespace(Head(str)) THEN trim_start(Tail(str)) ELSE str

RECURSIVE trim_end(_)
trim_end(str) ==
    IF str # <<>> /\ is_whitespace(str[Len(str)])
    THEN trim_end(SubSeq(str, 1, Len(str) - 1))
    ELSE str

trim(str) == trim_end(trim_start(str))

\* str::contains
contains(str, pat) ==
    \E k \in 1 .. (Len(str) - Len(pat) + 1) : SubSeq(str, k, k + Len(pat) - 1) = pat

\* str::replace: the non-overlapping matches, from the left.
RECURSIVE replace(_, _, _)
replace(str, from, to) ==
    IF Len(str) < Len(from) THEN str
    ELSE IF starts_with(str, from)
         THEN to \o replace(SubSeq(str, Len(from) + 1, Len(str)), from, to)
         ELSE <<Head(str)>> \o replace(Tail(str), from, to)

\* str::lines of split_attachments: the pieces between the "\n".
RECURSIVE lines(_)
lines(str) ==
    IF str = <<>> THEN <<>>
    ELSE LET breaks == {k \in 1 .. Len(str) : str[k] = "\n"}
         IN  IF breaks = {} THEN <<str>>
             ELSE LET k == CHOOSE b \in breaks : \A c \in breaks : b <= c
                  IN  <<SubSeq(str, 1, k - 1)>> \o lines(SubSeq(str, k + 1, Len(str)))

\* ------------------------------------------------------------ render errors
HandlebarsRender(field) == [kind |-> "HandlebarsRender", field |-> field]
StylesheetNotFound == [kind |-> "StylesheetNotFound", field |-> ""]
Io == [kind |-> "Io", field |-> ""]
CssInline == [kind |-> "CssInline", field |-> ""]

\* struct RenderedEmail
RenderedEmail(to, cc, bcc, subject, html_body, text_body, attachments) ==
    [to |-> to, cc |-> cc, bcc |-> bcc, subject |-> subject,
     html_body |-> html_body, text_body |-> text_body, attachments |-> attachments]

\* fn render_field: hbs.render_template fails for the fields whose template
\* names a variable the context lacks (o.unresolved), and yields o.text
\* for the others.
render_field(field_name, o) ==
    IF field_name \in o.unresolved
    THEN Err(HandlebarsRender(field_name))
    ELSE Ok(o.text[field_name])

\* fn effective_body_format
effective_body_format(m) ==
    IF m.body_format = None THEN "markdown" ELSE m.body_format[1]

\* fn markdown_to_html: what comrak makes of the rendered body.
markdown_to_html(markdown, o) == o.markdown

\* fn resolve_css: o.read is what std::fs::read_to_string answers.
resolve_css(m, o) ==
    IF m.style # None THEN Ok(m.style)
    ELSE IF m.stylesheet # None
         THEN IF o.read = "Ok" THEN Ok(Some(CssText))
              ELSE IF o.read = "NotFound" THEN Err(StylesheetNotFound)
              ELSE Err(Io)
         ELSE Ok(None)

\* inliner.inline_fragment(&wrapped, css_str): an error, the fragment as it
\* was, or the fragment with a style on its first tag.
inline_fragment(wrapped, o) ==
    IF o.inline = "Err" THEN Err(CssInline)
    ELSE IF o.inline = "styled"
         THEN Ok(DivStyled \o SubSeq(wrapped, Len(DivOpen) + 1, Len(wrapped)))
         ELSE Ok(wrapped)

\* fn apply_css
apply_css(html, css, o) ==
    IF css = None THEN Ok(html)
    ELSE LET wrapped == DivOpen \o html \o DivClose
             inlined == inline_fragment(wrapped, o)
         IN  IF is_err(inlined) THEN inlined
             ELSE IF starts_with(inlined[2], <<"<", "d", "i", "v">>)
             THEN LET str == inlined[2]
                      closes == {k \in 1 .. Len(str) : str[k] = ">"}
                      ends == {k \in 1 .. (Len(str) - Len(DivClose) + 1) :
                                 SubSeq(str, k, k + Len(DivClose) - 1) = DivClose}
                      start == IF closes = {} THEN 1
                               ELSE (CHOOSE k \in closes : \A c \in closes : k <= c) + 1
                      end == IF ends = {} THEN Len(str)
                             ELSE (CHOOSE k \in ends : \A c \in ends : k >= c) - 1
                  IN  Ok(SubSeq(str, start, end))
             ELSE Ok(inlined[2])

\* The loop of strip_html over html.chars(), in_tag being its flag.
RECURSIVE strip_tags(_, _)
strip_tags(html, in_tag) ==
    IF html = <<>> THEN <<>>
    ELSE LET ch == Head(html)
         IN  IF ch = "<" THEN strip_tags(Tail(html), TRUE)
             ELSE IF ch = ">" THEN strip_tags(Tail(html), FALSE)
             ELSE IF ~in_tag THEN <<ch>> \o strip_tags(Tail(html), in_tag)
             ELSE strip_tags(Tail(html), in_tag)

\* Faulty variant: the entity of '<' is left as it is.
decode_entities_keep_lt(str) ==
    LET amp == replace(str, <<"&", "a", "m", "p", ";">>, <<"&">>)
        gt == replace(amp, <<"&", "g", "t", ";">>, <<">">>)
        nbsp == replace(gt, <<"&", "n", "b", "s", "p", ";">>, <<" ">>)
        apos == replace(nbsp, <<"&", "#", "3", "9", ";">>, <<"'">>)
    IN  replace(apos, <<"&", "q", "u", "o", "t", ";">>, <<"\"">>)

\* The chain of `.replace(..)` that ends strip_html.
decode_entities(str) ==
    LET amp == replace(str, <<"&", "a", "m", "p", ";">>, <<"&">>)
        lt == replace(amp, <<"&", "l", "t", ";">>, <<"<">>)
        gt == replace(lt, <<"&", "g", "t", ";">>, <<">">>)
        nbsp == replace(gt, <<"&", "n", "b", "s", "p", ";">>, <<" ">>)
        apos == replace(nbsp, <<"&", "#", "3", "9", ";">>, <<"'">>)
    IN  replace(apos, <<"&", "q", "u", "o", "t", ";">>, <<"\"">>)

\* fn strip_html
strip_html(html) == decode_entities(strip_tags(html, FALSE))

\* fn split_attachments: the trimmed non-empty lines, as paths.
split_attachments(text) ==
    LET trimmed == [k \in 1 .. Len(lines(text)) |-> trim(lines(text)[k])]
    IN  SelectSeq(trimmed, LAMBDA str : str # <<>>)

\* Faulty variant: the body is rendered before the header fields.
steps_body_first(m) ==
    <<"body", "to", "subject">>
    \o (IF m.cc = None THEN <<>> ELSE <<"cc">>)
    \o (IF m.bcc = None THEN <<>> ELSE <<"bcc">>)
    \o <<"resolve_css">>
    \o (IF effective_body_format(m) = "text" THEN <<>> ELSE <<"apply_css">>)
    \o (IF m.attachments = None THEN <<>> ELSE <<"attachments">>)

\* The fallible calls of render_context for template m, in the order of its
\* statements; each is followed by `?`.
steps(m) ==
    <<"to", "subject">>
    \o (IF m.cc = None THEN <<>> ELSE <<"cc">>)
    \o (IF m.bcc = None THEN <<>> ELSE <<"bcc">>)
    \o <<"body", "resolve_css">>
    \o (IF effective_body_format(m) = "text" THEN <<>> ELSE <<"apply_css">>)
    \o (IF m.attachments = None THEN <<>> ELSE <<"attachments">>)

\* Faulty variant: the text format passes through the conversion of html.
body_pair_always_html(m, rendered_body, html) == <<Some(html), strip_html(html)>>

\* `let (html_body, text_body) = match effective_body_format(template)`,
\* html being what apply_css returned.
body_pair(m, rendered_body, html) ==
    IF effective_body_format(m) = "text"
    THEN <<None, rendered_body>>
    ELSE <<Some(html), strip_html(html)>>

\* fn render_context: the Result it returns and the calls it made.
render_context(m, o) ==
    LET rendered_body == render_field("body", o)
        css == resolve_css(m, o)
        html == IF effective_body_format(m) = "markdown"
                THEN apply_css(markdown_to_html(rendered_body[2], o), css[2], o)
                ELSE apply_css(rendered_body[2], css[2], o)
        result_of(step) ==
            IF step = "body" THEN rendered_body
            ELSE IF step = "resolve_css" THEN css
            ELSE IF step = "apply_css" THEN html
            ELSE render_field(step, o)
        optional(field) ==
            IF m[field] = None THEN None ELSE Some(render_field(field, o)[2])
        todo == steps(m)
        failing == {k \in 1 .. Len(todo) :
                      /\ \A j \in 1 .. (k - 1) : is_ok(result_of(todo[j]))
                      /\ is_err(result_of(todo[k]))}
    IN  IF failing # {}
        THEN LET k == CHOOSE f \in failing : TRUE
             IN  [result |-> result_of(todo[k]), evaluated |-> SubSeq(todo, 1, k)]
        ELSE LET bodies == body_pair(m, rendered_body[2],
                                     IF effective_body_format(m) = "text"
                                     THEN rendered_body[2] ELSE html[2])
             IN  [result |-> Ok(RenderedEmail(
                                  render_field("to", o)[2],
                                  optional("cc"),
                                  optional("bcc"),
                                  render_field("subject", o)[2],
                                  bodies[1],
                                  bodies[2],
                                  IF m.attachments = None THEN <<>>
                                  ELSE split_attachments(render_field("attachments", o)[2]))),
                  evaluated |-> todo]

\* ================================================================ validate
\* enum ValidationIssue
JoinFailure(namespace, detail, match_count) ==
    [issue |-> "JoinFailure", namespace |-> namespace, detail |-> detail,
     match_count |-> match_count]
UnresolvedVariable(field) == [issue |-> "UnresolvedVariable", field |-> field]
InvalidEmail(field, value) == [issue |-> "InvalidEmail", field |-> field, value |-> value]
AttachmentNotFound(path) == [issue |-> "AttachmentNotFound", path |-> path]
RequiredFieldEmpty(field) == [issue |-> "RequiredFieldEmpty", field |-> field]
IssueStylesheetNotFound == [issue |-> "StylesheetNotFound"]
CssInlineError == [issue |-> "CssInlineError"]

\* fn issue_from_join_error
issue_from_join_error(err) ==
    IF err.kind = "JoinMissingMatch"
    THEN JoinFailure(err.namespace, "MissingMatch", 0)
    ELSE IF err.kind = "JoinAmbiguousMatch"
    THEN JoinFailure(err.namespace, "AmbiguousMatch", err.match_count)
    ELSE UnresolvedVariable("<internal>")

\* Faulty variant: every render error is reported as an internal one.
issue_from_render_error_internal(err) == UnresolvedVariable("<internal>")

\* fn issue_from_render_error
issue_from_render_error(err) ==
    IF err.kind = "HandlebarsRender" THEN UnresolvedVariable(err.field)
    ELSE IF err.kind = "StylesheetNotFound" THEN IssueStylesheetNotFound
    ELSE IF err.kind = "CssInline" THEN CssInlineError
    ELSE UnresolvedVariable("<internal>")

\* fn check_required
check_required(field, value) ==
    IF trim(value) = <<>> THEN <<RequiredFieldEmpty(field)>> ELSE <<>>

\* fn check_email: value.parse::<Mailboxes>() succeeds for the texts of
\* mailboxes.
check_email(field, value) ==
    IF value \notin mailboxes THEN <<InvalidEmail(field, value)>> ELSE <<>>

\* Faulty variant: the address check is made for blank fields too.
email_checked_always(value) == TRUE

\* `!value.trim().is_empty()`, the guard of each check_email call.
email_checked(value) == trim(value) # <<>>

\* `path.exists()`
exists(path) == path \in files

\* fn post_render_checks: the issues it pushes, in order.
post_render_checks(email) ==
    check_required("to", email.to)
    \o check_required("subject", email.subject)
    \o check_required("body", email.text_body)
    \o (IF email_checked(email.to) THEN check_email("to", email.to) ELSE <<>>)
    \o (IF email.cc # None /\ email_checked(email.cc[1])
        THEN check_email("cc", email.cc[1]) ELSE <<>>)
    \o (IF email.bcc # None /\ email_checked(email.bcc[1])
        THEN check_email("bcc", email.bcc[1]) ELSE <<>>)
    \o [k \in 1 .. Len(SelectSeq(email.attachments, LAMBDA path : ~exists(path))) |->
          AttachmentNotFound(SelectSeq(email.attachments, LAMBDA path : ~exists(path))[k])]

\* A rendered email whose `to` is the given text.
EmailTo(to) == RenderedEmail(to, None, None, <<"s">>, None, <<"b">>, <<>>)

\* What render_context can return for one context: one of its errors, or
\* an email whose `to` is an address, empty, or not an address.
RenderOutcomes ==
    {Err(HandlebarsRender("body")), Err(StylesheetNotFound), Err(CssInline), Err(Io),
     Ok(EmailTo(GoodAddress)), Ok(EmailTo(<<>>)), Ok(EmailTo(BadAddress))}

\* `match render_context(template, &context, template_dir)` of validate_all,
\* given what render_context returned.
issues_of_render(render) ==
    IF is_err(render)
    THEN <<issue_from_render_error(render[2])>>
    ELSE post_render_checks(render[2])

\* Faulty variant: a row whose join failed is left out of the report.
RECURSIVE entries_without_join_failures(_, _)
entries_without_join_failures(per_entry_contexts, renders) ==
    IF per_entry_contexts = <<>> THEN <<>>
    ELSE LET n == Len(per_entry_contexts)
             front == entries_without_join_failures(SubSeq(per_entry_contexts, 1, n - 1),
                                                    renders)
         IN  IF is_err(per_entry_contexts[n]) THEN front
             ELSE Append(front, [entry_index |-> n - 1,
                                 issues |-> issues_of_render(renders[n])])

\* The loop of validate_all: one EntryResult per element of
\* per_entry_contexts, renders[k] being what render_context returns for the
\* context of row k - 1.
entries_of(per_entry_contexts, renders) ==
    [k \in 1 .. Len(per_entry_contexts) |->
        [entry_index |-> k - 1,
         issues |-> IF is_err(per_entry_contexts[k])
                    THEN <<issue_from_join_error(per_entry_contexts[k][2])>>
                    ELSE issues_of_render(renders[k])]]

\* fn validate_all
validate_all(iter, srcs, renders) ==
    LET per_entry_contexts == build_contexts_lenient(iter, srcs)
    IN  IF is_err(per_entry_contexts) THEN per_entry_contexts
        ELSE Ok(entries_of(per_entry_contexts[2], renders))

\* ------------------------------------------------------- inputs of a run
\* The templates of the runs: declaration order and configuration.
Shape(order, cfgs) == [declared |-> order, sources |-> cfgs]

TemplateShapes ==
    {Shape(<<"p", "a", "b">>, [n \in {"p", "a", "b"} |->
        IF n = "p" THEN PrimarySource ELSE JoinOne("p")]),
     Shape(<<"p", "a", "b">>, [n \in {"p", "a", "b"} |->
        IF n = "p" THEN PrimarySource ELSE IF n = "a" THEN JoinOne("p") ELSE JoinOne("a")]),
     Shape(<<"p", "a", "b">>, [n \in {"p", "a", "b"} |->
        IF n = "p" THEN PrimarySource ELSE IF n = "a" THEN JoinMany("p") ELSE GlobalSource]),
     Shape(<<"p", "a">>, [n \in {"p", "a"} |->
        IF n = "p" THEN GlobalSource ELSE JoinOne("p")]),
     Shape(<<"p", "a">>, [n \in {"p", "a"} |->
        IF n = "p" THEN PrimarySource ELSE JoinNoDot("p")]),
     Shape(<<"p", "a">>, [n \in {"p", "a"} |->
        IF n = "p" THEN PrimarySource ELSE JoinOne("p")])}

\* Arrays of at most n row objects, the k-th being named k.
ObjectArrays(n) ==
    UNION {{[k \in 1 .. len |-> ObjectRow(ids[k], k)] : ids \in [1 .. len -> FieldValues]} :
              len \in 0 .. n}

\* What sources can hold for a declared namespace: nothing, a value that is
\* not an array, an array of a non-object, arrays of row objects.
RowSets ==
    {None, Some(ScalarValue), Some(ArrayValue(<<ScalarRow>>))}
    \cup {Some(ArrayValue(rows)) : rows \in ObjectArrays(MaxRows)}

\* The orders in which a HashMap with these keys can iterate.
Orders(names) ==
    {seq \in [1 .. Cardinality(names) -> names] :
        \A i, j \in 1 .. Cardinality(names) : i # j => seq[i] # seq[j]}

\* The templates of the runs of validate_all: those with two namespaces.
ValidateShapes == {shape \in TemplateShapes : Len(shape.declared) = 2}

\* A template of one of the shapes was parsed and its data loaded; nothing
\* was sent.
loaded(shapes) ==
    /\ IdleDispatcher
    /\ cancel = FALSE
    /\ \E shape \in shapes :
          /\ template = shape.sources
          /\ declared = shape.declared
          /\ iteration \in Orders(DOMAIN shape.sources)
          /\ sources \in {srcs \in [Namespaces -> RowSets] :
                             \A n \in Namespaces \ DOMAIN shape.sources : srcs[n] = None}
    /\ render_results = <<>>
    /\ stage = "loaded"
    /\ lenient = <<>>
    /\ strict = <<>>
    /\ validation = <<>>
    /\ mail = <<>>
    /\ oracle = <<>>
    /\ rendered = <<>>
    /\ evaluated = <<>>
    /\ issues = <<>>
    /\ accepted = <<>>

InitJoin == loaded(TemplateShapes) /\ mailboxes = {} /\ files = {}

\* lettre parses GoodAddress and nothing else of what the rows render to;
\* no attachment is involved.
InitValidate == loaded(ValidateShapes) /\ mailboxes = {GoodAddress} /\ files = {}

dispatcher_vars == <<inputs, cancel, pc, next, handles, cancelled_results, task,
                     attempt, last_err, ret, permits, results, events, history, batch>>

\* build_contexts_lenient(&template, &sources) is called.
CallLenient ==
    /\ stage = "loaded"
    /\ lenient' = build_contexts_lenient(iteration, sources)
    /\ stage' = "build_contexts_lenient"
    /\ UNCHANGED <<dispatcher_vars, template, declared, iteration, sources,
                   render_results, strict, validation, rendering, accepted>>

\* build_contexts(&template, &sources) is called.
CallStrict ==
    /\ stage = "loaded"
    /\ strict' = build_contexts(iteration, sources)
    /\ stage' = "build_contexts"
    /\ UNCHANGED <<dispatcher_vars, template, declared, iteration, sources,
                   render_results, lenient, validation, rendering, accepted>>

\* validate_all(&template, &sources, dir) is called; render_context returns
\* one of RenderOutcomes for each joined context.
CallValidate ==
    /\ stage = "loaded"
    /\ LET joined == build_contexts_lenient(iteration, sources)
           rows == IF is_ok(joined) THEN Len(joined[2]) ELSE 0
       IN  render_results' \in [1 .. rows -> RenderOutcomes]
    /\ validation' = validate_all(iteration, sources, render_results')
    /\ stage' = "validate_all"
    /\ UNCHANGED <<dispatcher_vars, template, declared, iteration, sources,
                   lenient, strict, rendering, accepted>>

NextJoin ==
    \/ CallLenient
    \/ CallStrict

SpecJoin == InitJoin /\ [][NextJoin]_vars

NextValidate == CallValidate

SpecValidate == InitValidate /\ [][NextValidate]_vars

\* --------------------------------------------------------- validate_sources
MultiplePrimarySource(namespaces) ==
    [kind |-> "MultiplePrimarySource", namespaces |-> namespaces]
InvalidJoinRef(namespace, join_key, ref_value) ==
    [kind |-> "InvalidJoinRef", namespace |-> namespace, join_key |-> join_key,
     ref_value |-> ref_value]
SelfJoin(namespace) == [kind |-> "SelfJoin", namespace |-> namespace]
UnknownJoinNamespace(namespace, join_key, ref_namespace) ==
    [kind |-> "UnknownJoinNamespace", namespace |-> namespace, join_key |-> join_key,
     ref_namespace |-> ref_namespace]

\* `sorted.sort()` of namespace names: they sort as a, b, p.
sorted(names) == SelectSeq(<<"a", "b", "p">>, LAMBDA n : n \in elements(names))

\* `ref_value.splitn(2, '.').collect()`
splitn2(ref_value) ==
    IF split_once(ref_value) = None THEN <<ref_value>> ELSE split_once(ref_value)[1]

\* Faulty variant: a reference to the joining namespace itself passes.
join_ref_error_self_allowed(namespace, join_key, ref_value) ==
    LET parts == splitn2(ref_value)
        valid == Len(parts) = 2 /\ parts[1] # <<>> /\ parts[2] # <<>>
    IN  IF ~valid THEN Some(InvalidJoinRef(namespace, join_key, ref_value))
        ELSE IF ~(Len(parts[1]) = 1 /\ parts[1][1] \in DOMAIN template)
        THEN Some(UnknownJoinNamespace(namespace, join_key, parts[1]))
        ELSE None

\* The body of `for (join_key, ref_value) in join_map`: the error it returns
\* for one reference, if any.
join_ref_error(namespace, join_key, ref_value) ==
    LET parts == splitn2(ref_value)
        valid == Len(parts) = 2 /\ parts[1] # <<>> /\ parts[2] # <<>>
    IN  IF ~valid THEN Some(InvalidJoinRef(namespace, join_key, ref_value))
        ELSE IF parts[1] = <<namespace>> THEN Some(SelfJoin(namespace))
        ELSE IF ~(Len(parts[1]) = 1 /\ parts[1][1] \in DOMAIN template)
        THEN Some(UnknownJoinNamespace(namespace, join_key, parts[1]))
        ELSE None

\* `for (namespace, cfg) in &template.sources`, from the k-th namespace of
\* the iteration on; a join map has the one key "id".
RECURSIVE check_joins_from(_, _)
check_joins_from(iter, k) ==
    IF k > Len(iter) THEN Ok(<<>>)
    ELSE LET namespace == iter[k]
             cfg == template[namespace]
             error == IF cfg.join = None THEN None
                      ELSE join_ref_error(namespace, "id", cfg.join[1]["id"])
         IN  IF error # None THEN Err(error[1]) ELSE check_joins_from(iter, k + 1)

\* fn validate_sources, template.sources iterating in the order iter.
validate_sources(iter) ==
    LET primaries == SelectSeq(iter, LAMBDA n : template[n].primary = Some(TRUE))
    IN  IF Len(primaries) = 0 THEN Err(NoPrimarySource)
        ELSE IF Len(primaries) > 1 THEN Err(MultiplePrimarySource(sorted(primaries)))
        ELSE check_joins_from(iter, 1)

\* The join references of the templates given to validate_sources: to the
\* namespaces p, a, b and z (which no template declares), without a dot,
\* with an empty part, with two dots.
JoinRefs ==
    {<<n, ".", "id">> : n \in {"p", "a", "b", "z"}}
    \cup {<<"p">>, <<".", "id">>, <<"p", ".">>, <<"p", ".", "id", ".", "x">>}

\* What a template can declare for a namespace.
SourceConfigs ==
    [primary : {None, Some(TRUE), Some(FALSE)},
     join : {None} \cup {Some([k \in {"id"} |-> ref]) : ref \in JoinRefs},
     many : {None}]

\* A template with at most MaxSources namespaces was parsed.
InitSources ==
    /\ IdleDispatcher
    /\ cancel = FALSE
    /\ NotRendered
    /\ \E n \in 1 .. MaxSources :
          /\ declared = SubSeq(<<"p", "a", "b">>, 1, n)
          /\ template \in [elements(declared) -> SourceConfigs]
          /\ iteration \in Orders(elements(declared))
    /\ sources = <<>>
    /\ render_results = <<>>
    /\ lenient = <<>>
    /\ strict = <<>>
    /\ validation = <<>>
    /\ accepted = <<>>
    /\ stage = "parsed"

\* validate_sources(&template) is called.
CallValidateSources ==
    /\ stage = "parsed"
    /\ accepted' = validate_sources(iteration)
    /\ stage' = "validate_sources"
    /\ UNCHANGED <<dispatcher_vars, template, declared, iteration, sources,
                   render_results, lenient, strict, validation, rendering>>

NextSources == CallValidateSources

SpecSources == InitSources /\ [][NextSources]_vars

\* ------------------------------------------------- runs of render_context
\* No template sources are involved.
NoSources ==
    /\ template = <<>>
    /\ declared = <<>>
    /\ iteration = <<>>
    /\ sources = <<>>
    /\ render_results = <<>>
    /\ lenient = <<>>
    /\ strict = <<>>
    /\ validation = <<>>
    /\ accepted = <<>>

\* The fields render_field is called for.
Fields == {"to", "subject", "cc", "bcc", "body", "attachments"}

\* What the attachments field renders to: two paths, a blank line between.
AttachmentsText == <<"f", "\n", " ", "\n", " ", "g">>

\* The mail fields of the templates: cc, bcc, attachments, body_format,
\* style and stylesheet are optional.
MailFields ==
    [cc : {None, Some(<<"cc">>)},
     bcc : {None, Some(<<"bcc">>)},
     attachments : {None, Some(<<"attachments">>)},
     body_format : {None, Some("markdown"), Some("html"), Some("text")},
     style : {None, Some(CssText)},
     stylesheet : {None, Some(<<"c">>)}]

\* The answers of the libraries: the fields of unresolved fail to render,
\* the body renders to body and every other field to a text of its own;
\* reading the stylesheet ends as read says, comrak returns markdown and
\* the inliner behaves as inline says.
Oracle(unresolved, body, read, markdown, inline) ==
    [unresolved |-> unresolved,
     text |-> [f \in Fields |-> IF f = "body" THEN body
                                ELSE IF f = "attachments" THEN AttachmentsText
                                ELSE <<f>>],
     read |-> read,
     markdown |-> markdown,
     inline |-> inline]

\* The oracles of the runs over every template: at most MaxUnresolved
\* fields fail to render.
Oracles(bodies, htmls) ==
    {Oracle(unresolved, body, read, markdown, inline) :
        unresolved \in {u \in SUBSET Fields : Cardinality(u) <= MaxUnresolved},
        body \in bodies,
        read \in {"Ok", "NotFound", "PermissionDenied"},
        markdown \in htmls,
        inline \in {"Err", "unchanged", "styled"}}

\* The html comrak returns for a one-word body.
ParagraphHtml == <<"<", "p", ">", "x", "<", "/", "p", ">", "\n">>

\* An oracle says nothing about calls template m cannot cause: fields the
\* template lacks, a stylesheet that is not read, a conversion or an
\* inlining that does not take place.
answers_calls_of(m, o) ==
    /\ \A f \in {"cc", "bcc", "attachments"} : m[f] = None => f \notin o.unresolved
    /\ (m.style # None \/ m.stylesheet = None) => o.read = "Ok"
    /\ effective_body_format(m) # "markdown" => o.markdown = ParagraphHtml
    /\ (effective_body_format(m) = "text" \/ (m.style = None /\ m.stylesheet = None))
          => o.inline = "unchanged"

\* The bodies of the runs over every template: a word, an unclosed tag, an
\* entity.
RenderBodies == {<<"x">>, <<"<", "b", ">", "x">>, <<"&", "l", "t", ";">>}

\* A template was parsed and one context built; render_context is next.
parsed(templates) ==
    /\ IdleDispatcher
    /\ cancel = FALSE
    /\ NoSources
    /\ mail \in templates
    /\ rendered = <<>>
    /\ evaluated = <<>>
    /\ mailboxes = {}
    /\ files = {}
    /\ issues = <<>>
    /\ stage = "parsed"

InitRender ==
    /\ parsed(MailFields)
    /\ oracle \in {o \in Oracles(RenderBodies, {ParagraphHtml, <<"&", "l", "t", ";">>}) :
                      answers_calls_of(mail, o)}

\* render_context(&template, &context, template_dir) is called.
CallRender ==
    /\ stage = "parsed"
    /\ LET returned == render_context(mail, oracle)
       IN  /\ rendered' = returned.result
           /\ evaluated' = returned.evaluated
    /\ stage' = "render_context"
    /\ UNCHANGED <<dispatcher_vars, template, declared, iteration, sources,
                   render_results, lenient, strict, validation, accepted,
                   mail, oracle, mailboxes, files, issues>>

NextRender == CallRender

SpecRender == InitRender /\ [][NextRender]_vars

\* The pieces of the body texts: angle brackets, a letter, entities and the
\* tail of an entity.
Fragments ==
    {<<"<">>, <<">">>, <<"x">>, <<"&", "l", "t", ";">>, <<"&", "a", "m", "p", ";">>,
     <<"l", "t", ";">>}

\* The texts made of at most n fragments.
RECURSIVE Texts(_)
Texts(n) ==
    IF n = 0 THEN {<<>>}
    ELSE Texts(n - 1) \cup {text \o f : text \in Texts(n - 1), f \in Fragments}

\* The templates whose fields all resolve, without optional fields or
\* stylesheet.
BodyTemplates ==
    {m \in MailFields : m.cc = None /\ m.bcc = None /\ m.attachments = None
                        /\ m.stylesheet = None}

\* Every field renders and the inliner does not fail; the body (or, for
\* markdown, what comrak makes of it) is any text.
BodyOracles(m) ==
    LET inlines == IF m.style # None /\ effective_body_format(m) # "text"
                   THEN {"unchanged", "styled"} ELSE {"unchanged"}
    IN  IF effective_body_format(m) = "markdown"
        THEN {Oracle({}, <<"x">>, "Ok", html, inline) :
                 html \in Texts(MaxFragments), inline \in inlines}
        ELSE {Oracle({}, body, "Ok", ParagraphHtml, inline) :
                 body \in Texts(MaxFragments), inline \in inlines}

InitBody ==
    /\ parsed(BodyTemplates)
    /\ oracle \in BodyOracles(mail)

SpecBody == InitBody /\ [][NextRender]_vars

\* ----------------------------------------------- runs of post_render_checks
\* What a header field can render to: nothing, blanks, two other texts.
FieldTexts == {<<>>, BlankText, GoodAddress, BadAddress}

\* The emails handed to post_render_checks.
CheckedEmails ==
    {RenderedEmail(to, cc, bcc, subject, None, text_body, attachments) :
        to \in FieldTexts,
        cc \in {None} \cup {Some(t) : t \in FieldTexts},
        bcc \in {None} \cup {Some(t) : t \in FieldTexts},
        subject \in {<<>>, <<"s">>},
        text_body \in {BlankText, <<"b">>},
        attachments \in {<<>>, <<<<"f">>>>}}

\* render_context returned an email; lettre accepts some of the texts and
\* the attachment exists or not.
InitChecks ==
    /\ IdleDispatcher
    /\ cancel = FALSE
    /\ NoSources
    /\ mail = <<>>
    /\ oracle = <<>>
    /\ rendered \in {Ok(email) : email \in CheckedEmails}
    /\ evaluated = <<>>
    /\ mailboxes \in SUBSET FieldTexts
    /\ files \in SUBSET {<<"f">>}
    /\ issues = <<>>
    /\ stage = "render_context"

\* post_render_checks(&rendered, &mut issues) is called.
CallChecks ==
    /\ stage = "render_context"
    /\ is_ok(rendered)
    /\ issues' = post_render_checks(rendered[2])
    /\ stage' = "post_render_checks"
    /\ UNCHANGED <<dispatcher_vars, template, declared, iteration, sources,
                   render_results, lenient, strict, validation, accepted,
                   mail, oracle, rendered, evaluated, mailboxes, files>>

NextChecks == CallChecks

SpecChecks == InitChecks /\ [][NextChecks]_vars

\* =================================================================== claims
\* Rows in their network send phase: from the permit to the task's return.
InFlight == {i \in Rows : task[i] \in {"permit", "sending", "sleeping"}}

\* max(1, profile.parallelism), written out.
EffectiveParallelism == IF parallelism = 0 THEN 1 ELSE parallelism

\* The entries of the report for row i.
ReportedAt(i) == {k \in 1 .. Len(results) : results[k].entry_index = i}

\* C1: at every moment the number of rows between acquiring a permit and the
\* return of their task (retry delays included) is at most
\* max(1, profile.parallelism); parallelism 0 behaves as 1.
C1_ConcurrencyCap == Cardinality(InFlight) <= EffectiveParallelism

\* C1 witness: with parallelism 0 one row is sending while another row waits
\* for the only permit.
C1_Witness ==
    /\ parallelism = 0
    /\ \E i \in Rows : task[i] = "sending"
    /\ \E j \in Rows : task[j] = "queued"

\* C2: when send_all_with_progress has returned, its report holds exactly one
\* SendResult per input row: every index 0..N-1 occurs exactly once.
C2_CompleteReport ==
    pc = "done" =>
        /\ Len(results) = total
        /\ \A i \in Rows : Cardinality(ReportedAt(i)) = 1

\* C2 witness: a returned report of two rows, one sent and one cancelled.
C2_Witness ==
    /\ pc = "done"
    /\ total = 2
    /\ \E k \in 1 .. Len(results) : results[k].success
    /\ \E k \in 1 .. Len(results) : results[k].error = Some(CancelledText)

\* The positions of the progress events of row i.
EventsOf(i) == {k \in 1 .. Len(events) : events[k].entry_index = i}

\* Row i was skipped by the pre-spawn cancellation check.
Skipped(i) == \E k \in 1 .. Len(cancelled_results) : cancelled_results[k].entry_index = i

\* The position at which row i became terminal (0 if it has not).
TerminalAt(i) ==
    IF \E k \in 1 .. Len(terminal) : terminal[k] = i
    THEN CHOOSE k \in 1 .. Len(terminal) : terminal[k] = i
    ELSE 0

\* C3: with a sink, a returned call has delivered exactly one progress event
\* per SendResult of its report, with the same entry_index, success and
\* error, and no other event.
C3_OneEventPerResult ==
    (pc = "done" /\ on_progress) =>
        /\ Len(events) = Len(results)
        /\ \A k \in 1 .. Len(results) :
              /\ Cardinality(EventsOf(results[k].entry_index)) = 1
              /\ \A e \in EventsOf(results[k].entry_index) :
                    /\ events[e].success = results[k].success
                    /\ events[e].error = results[k].error

C5_CompletedCounts ==
    /\ \A k \in 1 .. Len(events) :
          /\ events[k].completed = k
          /\ events[k].completed <= events[k].total
          /\ events[k].total = total
    /\ (pc = "done" /\ events # <<>>) => events[Len(events)].completed = total

\* C5 witness: a returned call that delivered two events, the first for a
\* task result and the second for a row skipped as cancelled.
C5_Witness ==
    /\ pc = "done"
    /\ Len(events) = 2
    /\ ~Skipped(events[1].entry_index)
    /\ Skipped(events[2].entry_index)

\* The results recorded for row i so far: by the pre-spawn check, by its
\* task, or in the report.
Recorded(i) ==
    {cancelled_results[k] : k \in {m \in 1 .. Len(cancelled_results) :
                                     cancelled_results[m].entry_index = i}}
    \cup (IF ret[i] = None THEN {} ELSE {ret[i][1]})
    \cup {results[k] : k \in ReportedAt(i)}

\* Row i has not passed its post-permit cancellation check.
Unchecked(i) ==
    /\ task[i] \in {"unspawned", "queued", "permit"}
    /\ Recorded(i) = {}

\* What a step taken while the flag is set and stays set does to a row that
\* has not passed its post-permit check: no send, no result but "cancelled",
\* no permit for a row skipped before spawning, the permit back from a row
\* cancelled after acquiring it.
CancelledNotSent(i) ==
    /\ task'[i] \in {"unspawned", "queued", "permit", "returned"}
    /\ sent'[i] = <<>>
    /\ \A r \in Recorded(i)' : ~r.success /\ r.error = Some(CancelledText)
    /\ Skipped(i)' => i \notin acquired'
    /\ (task[i] = "permit" /\ task'[i] = "returned") => permits' = permits + 1

\* C6 as stated: once the flag is set and stays set, every row that has not
\* passed its post-permit check is recorded as "cancelled" and never sent.
C6_CancelStopsUnchecked ==
    [][(cancel /\ cancel' /\ pc \in {"start", "running"})
         => \A i \in Rows : Unchecked(i) => CancelledNotSent(i)]_vars

\* C6 amended: the same, in a call whose transport construction succeeded
\* (when it fails every row is recorded with the construction error, whatever
\* the flag).
C6_CancelStopsUncheckedAfterTransport ==
    [][(cancel /\ cancel' /\ pc \in {"start", "running"} /\ transport_ok)
         => \A i \in Rows : Unchecked(i) => CancelledNotSent(i)]_vars

\* C6 witness: the flag is set, one row was skipped before spawning and
\* another was cancelled after acquiring its permit, which is back in the
\* semaphore.
C6_Witness ==
    /\ cancel
    /\ \E i \in Rows : Skipped(i) /\ i \notin acquired
    /\ \E j \in Rows :
          /\ j \in acquired
          /\ ret[j] = Some(SendResult(j, FALSE, Some(CancelledText)))
          /\ sent[j] = <<>>
    /\ permits = EffectiveParallelism

\* The displayed error carries response code 421 or 452.
TransientCode(e) ==
    /\ Len(e) >= 3
    /\ <<e[1], e[2], e[3]>> \in {<<"4", "2", "1">>, <<"4", "5", "2">>}

\* The last outcome of the transport.send calls made for row i.
LastOutcome(i) == sent[i][Len(sent[i])]

\* C7: a row that passed the post-permit check with the flag unset is never
\* recorded as "cancelled".  If its message was built it is recorded with the
\* outcome of its last send attempt, and a transient failure is recorded
\* only after all MAX_ATTEMPTS attempts, whatever the flag did meanwhile.
C7_PassedRowsKeepOutcome ==
    \A i \in passed :
        /\ \A r \in Recorded(i) : r.error # Some(CancelledText)
        /\ (task[i] = "returned" /\ message_result[i] = "Ok") =>
              /\ sent[i] # <<>>
              /\ \A r \in Recorded(i) :
                    /\ r.success = (LastOutcome(i) = None)
                    /\ r.error = LastOutcome(i)
              /\ (LastOutcome(i) # None /\ TransientCode(LastOutcome(i)[1]))
                    => Len(sent[i]) = MAX_ATTEMPTS
        /\ (task[i] = "returned" /\ message_result[i] = "Err") =>
              \A r \in Recorded(i) : r.error = Some(BuildErrText)

\* C7 witness: the flag was set while row i was in send_with_retry and is
\* still set; the first attempt of the row failed with 421, the second
\* succeeded and the row is reported as sent.
C7_Witness ==
    \E i \in interrupted :
        /\ cancel
        /\ i \in passed
        /\ sent[i] = <<Some(Err421), None>>
        /\ \E k \in ReportedAt(i) : results[k].success

\* C8: if cancel_send is called while a send_batch is active (after its
\* guard was acquired, before it returns), then from that call on no row of
\* the batch begins its network send, and every row that had not passed its
\* post-permit check is reported as "cancelled".
C8_CancelSendStopsBatch ==
    [][(cancel_requested /\ pc = "running")
         => \A i \in Rows : Unchecked(i) =>
               /\ task'[i] # "sending"
               /\ sent'[i] = <<>>
               /\ \A r \in Recorded(i)' : r.error = Some(CancelledText)]_vars

\* C9: send_with_retry makes at most MAX_ATTEMPTS attempts; every attempt but
\* the last one made failed with a transient error (421 or 452); a success
\* or a non-transient error ends the sequence at once with that outcome, so
\* a non-transient failure of the first attempt is the only attempt.
C9_RetryPolicy ==
    \A i \in Rows :
        /\ Len(sent[i]) <= MAX_ATTEMPTS
        /\ \A k \in 1 .. (Len(sent[i]) - 1) :
              sent[i][k] # None /\ TransientCode(sent[i][k][1])
        /\ (sent[i] # <<>> /\ (LastOutcome(i) = None
                               \/ ~TransientCode(LastOutcome(i)[1]))) =>
              /\ task[i] = "returned"
              /\ ret[i] = Some(SendResult(i, LastOutcome(i) = None, LastOutcome(i)))
        /\ task[i] = "sending" => Len(sent[i]) = attempt[i]
        /\ task[i] = "sleeping" => Len(sent[i]) = attempt[i] + 1

\* C9 witness: a first attempt failed with 452, the second with a
\* non-transient error, and the task returned that error after two attempts.
C9_Witness ==
    \E i \in Rows :
        /\ sent[i] = <<Some(Err452), Some(Err550)>>
        /\ ret[i] = Some(SendResult(i, FALSE, Some(Err550)))

\* C10 as stated: a row whose message could not be built is recorded as
\* failed and its task never acquires a semaphore permit.
C10_BuildFailureTakesNoPermit ==
    \A i \in Rows : message_result[i] = "Err" =>
        /\ i \notin acquired
        /\ \A r \in Recorded(i) : ~r.success

\* C10 amended: a row whose message could not be built never calls the
\* transport and is never sent.  Its task acquires a permit like any other
\* and returns it when the task returns: with the construction error if the
\* post-permit check saw the flag unset, else as "cancelled"; a row skipped
\* before spawning is "cancelled", and if the transport could not be built
\* the row carries that error.
C10_BuildFailureNeverSends ==
    \A i \in Rows : message_result[i] = "Err" =>
        /\ sent[i] = <<>>
        /\ task[i] \notin {"sending", "sleeping"}
        /\ \A r \in Recorded(i) :
              /\ ~r.success
              /\ r.error = (IF ~transport_ok THEN Some(ConnectErrText)
                            ELSE IF i \in passed THEN Some(BuildErrText)
                            ELSE Some(CancelledText))
        /\ (\E r \in Recorded(i) : r.error = Some(BuildErrText)) => i \in acquired
        /\ task[i] = "returned" => i \notin InFlight

\* C10 witness: a row whose build failed held a permit and is reported with
\* its construction error; the permit is back.
C10_Witness ==
    \E i \in Rows :
        /\ message_result[i] = "Err"
        /\ i \in acquired
        /\ \E k \in ReportedAt(i) : results[k].error = Some(BuildErrText)
        /\ permits = EffectiveParallelism

\* C11: when transport construction fails, the returned report has exactly
\* one failed result per row, in row order, each with that row's recipient
\* and all with the same error text, that of the construction error; no
\* message is built, no task spawned, no permit acquired, no send attempted.
C11_TransportFailureReport ==
    ~transport_ok =>
        /\ built = {}
        /\ handles = <<>>
        /\ cancelled_results = <<>>
        /\ acquired = {}
        /\ \A i \in Rows : task[i] = "unspawned" /\ sent[i] = <<>>
        /\ pc = "done" =>
              /\ Len(results) = total
              /\ \A k \in 1 .. Len(results) :
                    /\ results[k].entry_index = k - 1
                    /\ results[k].recipient = recipient_of(k - 1)
                    /\ ~results[k].success
                    /\ results[k].error = Some(ConnectErrText)
                    /\ results[k].error = results[1].error

\* C11 witness: a call for two rows returned after its transport could not
\* be built, with the flag set.
C11_Witness ==
    /\ ~transport_ok
    /\ pc = "done"
    /\ total = 2
    /\ Len(results) = 2
    /\ cancel

\* The number of successes in the report.
success_count == Cardinality({k \in 1 .. Len(results) : results[k].success})

\* The number of results with error "cancelled" in the report.
cancelled_count ==
    Cardinality({k \in 1 .. Len(results) : results[k].error = Some(CancelledText)})

GuardHolders == {c \in Callers : call[c] \in {"guard", "inner", "dispatch", "release"}}

\* The dispatcher and the flag, which a rejected call must leave alone.
dispatcher == <<inputs, cancel, pc, next, handles, cancelled_results, task,
                attempt, last_err, ret, permits, results, events, history>>

\* C13: at most one send_batch call is past the guard at any time, and the
\* guard is set exactly while one is.  A call that arrives while another is
\* active returns "already in progress" and touches neither the dispatcher
\* nor the cancel flag; a call that arrives while none is active is
\* accepted; the active call clears the guard when it returns, Ok or Err.
C13_SingleActiveBatch ==
    /\ [](Cardinality(GuardHolders) <= 1 /\ (active <=> GuardHolders # {}))
    /\ [][\A c \in Callers :
            /\ (call[c] = "idle" /\ call'[c] # "idle") =>
                  IF GuardHolders # {}
                  THEN /\ call'[c] = "returned"
                       /\ outcome'[c] = "busy"
                       /\ UNCHANGED <<dispatcher, active>>
                  ELSE /\ call'[c] = "guard"
                       /\ active'
            /\ (call[c] # "returned" /\ call'[c] = "returned"
                   /\ outcome'[c] \in {"ok", "err"}) => ~active'
            /\ (pc = "idle" /\ pc' # "idle") => GuardHolders = {c0 \in Callers : call[c0] = "inner"}
         ]_vars

\* C13 witness: one call was turned away while the other was dispatching,
\* with the flag set by cancel_send; the dispatch goes on cancelled.
C13_Witness ==
    \E c \in Callers : \E d \in Callers :
        /\ outcome[c] = "busy"
        /\ call[d] = "dispatch"
        /\ pc = "running"
        /\ cancel
        /\ cancelled_results # <<>>

\* ------------------------------------------------------------ join claims
\* The namespace marked primary, if there is one (the templates of the runs
\* mark at most one).
HasPrimary == \E n \in DOMAIN template : template[n].primary = Some(TRUE)
PrimaryOf == CHOOSE n \in DOMAIN template : template[n].primary = Some(TRUE)

\* The joined namespaces with cardinality one, and with cardinality many.
JoinedOne == {n \in DOMAIN template : template[n].join # None /\ template[n].many = None}
JoinedMany == {n \in DOMAIN template : template[n].join # None /\ template[n].many # None}

\* The join of ns compares the id of its rows with the id of the primary
\* row, or has a reference without a dot, which no row satisfies.
JoinsPrimary(ns) == template[ns].join[1]["id"] = <<PrimaryOf, ".", "id">>
JoinsNothing(ns) == \A k \in 1 .. Len(template[ns].join[1]["id"]) :
                       template[ns].join[1]["id"][k] # "."

\* The rows loaded for namespace n.
RowsOf(n) == sources[n][1].rows

\* The rows of ns that satisfy its join predicates for the k-th primary row.
Matching(ns, k) ==
    IF JoinsNothing(ns) THEN {}
    ELSE {r \in elements(RowsOf(ns)) :
            /\ r.obj
            /\ RowsOf(PrimaryOf)[k].obj
            /\ r.id = RowsOf(PrimaryOf)[k].id}

\* build_contexts_lenient was called and returned per-row results.
LenientRows == stage = "build_contexts_lenient" /\ is_ok(lenient)

\* C14: for a joined namespace ns with cardinality one and every primary
\* row: with exactly one matching row the row binds it, unless another
\* namespace fails; with no matching row the row fails, and an error that
\* names ns is JoinMissingMatch{ns, entry_index}; with n >= 2 matching rows
\* the row fails, and an error that names ns is
\* JoinAmbiguousMatch{ns, entry_index, n}.
C14_JoinOne ==
    LenientRows =>
        \A ns \in JoinedOne : (JoinsPrimary(ns) \/ JoinsNothing(ns)) =>
            \A k \in 1 .. Len(lenient[2]) :
                LET n == Cardinality(Matching(ns, k))
                    r == lenient[2][k]
                IN  /\ n # 1 => is_err(r)
                    /\ (is_err(r) /\ JoinedOne = {ns}) => r[2].namespace = ns
                    /\ (is_err(r) /\ r[2].namespace = ns) =>
                          /\ n # 1
                          /\ n = 0 => r[2] = JoinMissingMatch(ns, k - 1)
                          /\ n >= 2 => r[2] = JoinAmbiguousMatch(ns, k - 1, n)
                    /\ is_ok(r) =>
                          /\ r[2][ns] # None
                          /\ r[2][ns][1].kind = "object"
                          /\ elements(r[2][ns][1].rows) = Matching(ns, k)

\* C14 witness: two primary rows and one joined namespace; the first row has
\* two matches and fails as ambiguous, the second has none and fails as
\* missing.
C14_Witness ==
    /\ LenientRows
    /\ JoinedOne = {"a"}
    /\ lenient[2] = <<Err(JoinAmbiguousMatch("a", 0, 2)), Err(JoinMissingMatch("a", 1))>>

\* C15: for a joined namespace ns with cardinality many and every primary
\* row, no error names ns, and the row binds an array holding exactly the
\* matching rows of ns, each once, in row-set order; no match binds the
\* empty array.
C15_JoinMany ==
    LenientRows =>
        \A ns \in JoinedMany : (JoinsPrimary(ns) \/ JoinsNothing(ns)) =>
            \A k \in 1 .. Len(lenient[2]) :
                LET r == lenient[2][k]
                IN  /\ is_err(r) => r[2].namespace # ns
                    /\ (JoinedOne = {}) => is_ok(r)
                    /\ is_ok(r) =>
                          /\ r[2][ns] # None
                          /\ r[2][ns][1].kind = "array"
                          /\ LET bound == r[2][ns][1].rows
                             IN  /\ elements(bound) = Matching(ns, k)
                                 /\ Len(bound) = Cardinality(Matching(ns, k))
                                 /\ \A i \in 1 .. Len(bound) : \A j \in 1 .. Len(bound) :
                                       i < j => bound[i].name < bound[j].name

\* C15 witness: the first primary row binds an array of two rows, the
\* second the empty array.
C15_Witness ==
    /\ LenientRows
    /\ "a" \in JoinedMany
    /\ Len(lenient[2]) = 2
    /\ is_ok(lenient[2][1]) /\ Len(lenient[2][1][2]["a"][1].rows) = 2
    /\ is_ok(lenient[2][2]) /\ lenient[2][2][2]["a"] = Some(ArrayValue(<<>>))

\* The arrays the primary row-set could hold instead.
OtherPrimaryArrays == ObjectArrays(MaxRows) \cup {<<ScalarRow>>}

\* C16: build_contexts_lenient returns one result per primary row, in
\* primary-row order: an Ok context holds its own row in the primary
\* namespace, an Err carries its own index.  The result at index i is the
\* same for every primary row-set with the same row at index i: a failure
\* of another row changes nothing at i.
C16_LenientPerRow ==
    LenientRows =>
        /\ Len(lenient[2]) = Len(RowsOf(PrimaryOf))
        /\ \A k \in 1 .. Len(lenient[2]) :
              LET r == lenient[2][k]
              IN  /\ is_ok(r) => r[2][PrimaryOf] = Some(RowValue(RowsOf(PrimaryOf)[k]))
                  /\ is_err(r) =>
                        /\ r[2].kind \in {"JoinMissingMatch", "JoinAmbiguousMatch"}
                        /\ r[2].entry_index = k - 1
        /\ \A other \in OtherPrimaryArrays :
              LET again == build_contexts_lenient(
                               iteration,
                               [sources EXCEPT ![PrimaryOf] = Some(ArrayValue(other))])
              IN  /\ is_ok(again)
                  /\ Len(again[2]) = Len(other)
                  /\ \A k \in 1 .. Len(other) :
                        (k <= Len(lenient[2]) /\ other[k] = RowsOf(PrimaryOf)[k])
                            => again[2][k] = lenient[2][k]

\* C16 witness: of two primary rows the first joins and the second does not.
C16_Witness ==
    /\ LenientRows
    /\ Len(lenient[2]) = 2
    /\ is_ok(lenient[2][1])
    /\ lenient[2][2] = Err(JoinMissingMatch("a", 1))

\* C17: the per-row results of build_contexts_lenient are those of an
\* evaluation of the namespaces in declaration order: the same rows are Ok,
\* and the errors name the same namespaces, whatever the iteration order of
\* template.sources.
C17_DeclarationOrder ==
    stage = "build_contexts_lenient" =>
        LET in_order == build_contexts_lenient(declared, sources)
        IN  /\ is_ok(lenient) = is_ok(in_order)
            /\ is_ok(lenient) =>
                  /\ Len(lenient[2]) = Len(in_order[2])
                  /\ \A k \in 1 .. Len(lenient[2]) :
                        /\ is_ok(lenient[2][k]) = is_ok(in_order[2][k])
                        /\ is_err(lenient[2][k]) =>
                              lenient[2][k][2].namespace = in_order[2][k][2].namespace

\* sources holds an array for namespace n, and an array of row objects.
IsArray(n) == sources[n] # None /\ sources[n][1].kind = "array"
IsRowArray(n) == IsArray(n) /\ \A k \in 1 .. Len(RowsOf(n)) : RowsOf(n)[k].obj

\* The joined namespaces other than the primary one.
Joined == {n \in DOMAIN template : template[n].join # None /\ (HasPrimary => n # PrimaryOf)}

\* C18 as stated: the call fails exactly when no namespace is primary or
\* the row-set of some declared namespace, primary, joined or global, is
\* missing or is not a sequence of row objects; otherwise it returns one
\* result per primary row.
C18_StructuralErrorAnyNamespace ==
    stage = "build_contexts_lenient" =>
        /\ is_err(lenient) <=>
              (~HasPrimary \/ \E n \in DOMAIN template : ~IsRowArray(n))
        /\ is_ok(lenient) => Len(lenient[2]) = Len(RowsOf(PrimaryOf))

\* C18 amended: the call fails exactly when no namespace is primary
\* (NoPrimarySource) or the row-set of the primary namespace or of a joined
\* namespace is missing or not an array (InvalidDataShape); otherwise it
\* returns one result per primary row.  A global namespace may be missing
\* or hold anything, and the elements of an array need not be objects.
C18_StructuralErrorPrimaryOrJoined ==
    stage = "build_contexts_lenient" =>
        /\ is_err(lenient) <=>
              (~HasPrimary \/ ~IsArray(PrimaryOf) \/ \E n \in Joined : ~IsArray(n))
        /\ is_err(lenient) =>
              /\ ~HasPrimary => lenient[2] = NoPrimarySource
              /\ HasPrimary =>
                    /\ lenient[2].kind = "InvalidDataShape"
                    /\ lenient[2].namespace \in {PrimaryOf} \cup Joined
                    /\ ~IsArray(lenient[2].namespace)
                    /\ ~IsArray(PrimaryOf) => lenient[2].namespace = PrimaryOf
        /\ is_ok(lenient) => Len(lenient[2]) = Len(RowsOf(PrimaryOf))

\* C18 witness: the call returns two per-row results although the global
\* namespace has no data and the joined one holds an array of a non-object.
C18_Witness ==
    /\ LenientRows
    /\ Len(lenient[2]) = 2
    /\ "b" \in DOMAIN template
    /\ template["b"] = GlobalSource
    /\ sources["b"] = None
    /\ sources["a"] = Some(ArrayValue(<<ScalarRow>>))

\* C19: build_contexts returns the structural error of
\* build_contexts_lenient if there is one; else Ok with every context in
\* primary-row order if every per-row result is Ok; else the error of the
\* failing row with the lowest index.
C19_StrictIsLenientShortCircuit ==
    stage = "build_contexts" =>
        LET per_row == build_contexts_lenient(iteration, sources)
        IN  /\ is_err(per_row) => strict = per_row
            /\ is_ok(per_row) =>
                  LET failing == {k \in 1 .. Len(per_row[2]) : is_err(per_row[2][k])}
                  IN  /\ failing = {} =>
                            /\ is_ok(strict)
                            /\ Len(strict[2]) = Len(per_row[2])
                            /\ \A k \in 1 .. Len(per_row[2]) :
                                  strict[2][k] = per_row[2][k][2]
                      /\ failing # {} =>
                            \E k \in failing :
                                /\ \A m \in failing : k <= m
                                /\ strict = per_row[2][k]

\* C19 witness: both primary rows fail, differently; build_contexts returns
\* the error of the first.
C19_Witness ==
    /\ stage = "build_contexts"
    /\ strict = Err(JoinAmbiguousMatch("a", 0, 2))
    /\ LET per_row == build_contexts_lenient(iteration, sources)
       IN  /\ is_ok(per_row)
           /\ Len(per_row[2]) = 2
           /\ per_row[2][2] = Err(JoinMissingMatch("a", 1))

\* C20: validate_all returns Err only for a structural failure
\* (NoPrimarySource, InvalidDataShape); otherwise its report has exactly one
\* EntryResult per primary row, entries[i].entry_index = i, whatever number
\* of rows fail to join, fail to render or carry post-render issues.
C20_OneEntryPerRow ==
    stage = "validate_all" =>
        /\ is_err(validation) =>
              /\ validation[2].kind \in {"NoPrimarySource", "InvalidDataShape"}
              /\ ~HasPrimary \/ ~IsArray(PrimaryOf) \/ \E n \in Joined : ~IsArray(n)
        /\ is_ok(validation) =>
              /\ Len(validation[2]) = Len(RowsOf(PrimaryOf))
              /\ \A k \in 1 .. Len(validation[2]) : validation[2][k].entry_index = k - 1

\* C20 witness: a report of two entries; the first row failed to join, the
\* second joined and failed to render.
C20_Witness ==
    /\ stage = "validate_all"
    /\ is_ok(validation)
    /\ Len(validation[2]) = 2
    /\ validation[2][1].issues = <<issue_from_join_error(JoinMissingMatch("a", 0))>>
    /\ validation[2][2].issues = <<UnresolvedVariable("body")>>

\* The issues of kind `kind` pushed for field `field`.
IssuesFor(kind, field) ==
    {k \in 1 .. Len(issues) : issues[k].issue = kind /\ issues[k].field = field}

\* The text of field `field` of the email handed to post_render_checks
\* (None for an absent cc or bcc).
FieldOf(field) == IF field = "to" THEN Some(rendered[2].to) ELSE rendered[2][field]

\* C21: after post_render_checks, for each of to, cc, bcc: a field that is
\* blank after trimming has no InvalidEmail; a blank `to` has exactly one
\* RequiredFieldEmpty{to}; a non-blank field that does not parse has one
\* InvalidEmail carrying the field and its text, and a `to` that is not blank
\* has no RequiredFieldEmpty{to}; the two issues never meet on one field.
C21_RequiredOrInvalid ==
    stage = "post_render_checks" =>
        /\ \A f \in {"to", "cc", "bcc"} :
              LET text == FieldOf(f)
                  blank == text = None \/ trim(text[1]) = <<>>
              IN  /\ blank => IssuesFor("InvalidEmail", f) = {}
                  /\ (~blank /\ text[1] \notin mailboxes) =>
                        /\ Cardinality(IssuesFor("InvalidEmail", f)) = 1
                        /\ \A k \in IssuesFor("InvalidEmail", f) : issues[k].value = text[1]
                  /\ (~blank /\ text[1] \in mailboxes) => IssuesFor("InvalidEmail", f) = {}
                  /\ IssuesFor("InvalidEmail", f) = {} \/ IssuesFor("RequiredFieldEmpty", f) = {}
        /\ Cardinality(IssuesFor("RequiredFieldEmpty", "to"))
              = (IF trim(rendered[2].to) = <<>> THEN 1 ELSE 0)

\* C21 witness: a `to` of blanks got RequiredFieldEmpty alone although lettre
\* does not accept it, next to a cc that was reported as invalid.
C21_Witness ==
    /\ stage = "post_render_checks"
    /\ rendered[2].to = BlankText
    /\ BlankText \notin mailboxes
    /\ rendered[2].cc = Some(BadAddress)
    /\ issues[1] = RequiredFieldEmpty("to")
    /\ IssuesFor("InvalidEmail", "to") = {}
    /\ IssuesFor("InvalidEmail", "cc") # {}

\* The joined namespaces of cardinality one without exactly one matching
\* row for the k-th primary row.
FailingJoins(k) == {ns \in JoinedOne : Cardinality(Matching(ns, k)) # 1}

\* C22: in the report of validate_all, a row whose join fails has exactly one
\* issue, JoinFailure naming a failing namespace, with MissingMatch when no
\* row matches and AmbiguousMatch{match_count} when several do; a row that
\* joins and whose rendering fails has exactly one issue:
\* UnresolvedVariable{field} for a Handlebars error, StylesheetNotFound,
\* CssInlineError, and UnresolvedVariable{"<internal>"} for any other error.
C22_OneIssuePerFailure ==
    (stage = "validate_all" /\ is_ok(validation)) =>
        \A k \in 1 .. Len(validation[2]) :
            LET found == validation[2][k].issues
                render == render_results[k]
            IN  /\ FailingJoins(k) # {} =>
                      /\ Len(found) = 1
                      /\ found[1].issue = "JoinFailure"
                      /\ found[1].namespace \in FailingJoins(k)
                      /\ LET n == Cardinality(Matching(found[1].namespace, k))
                         IN  IF n = 0
                             THEN found[1].detail = "MissingMatch"
                             ELSE /\ found[1].detail = "AmbiguousMatch"
                                  /\ found[1].match_count = n
                /\ (FailingJoins(k) = {} /\ is_err(render)) =>
                      /\ Len(found) = 1
                      /\ render[2].kind = "HandlebarsRender" =>
                            found[1] = [issue |-> "UnresolvedVariable",
                                        field |-> render[2].field]
                      /\ render[2].kind = "StylesheetNotFound" =>
                            found[1].issue = "StylesheetNotFound"
                      /\ render[2].kind = "CssInline" =>
                            found[1].issue = "CssInlineError"
                      /\ render[2].kind \notin {"HandlebarsRender", "StylesheetNotFound",
                                                "CssInline"} =>
                            found[1] = [issue |-> "UnresolvedVariable",
                                        field |-> "<internal>"]

\* C22 witness: the first row matches no row of `a` and, though its
\* rendering would yield an email with an empty `to`, has the join failure as
\* its only issue; the second row joins and fails to render with an I/O
\* error.
C22_Witness ==
    /\ stage = "validate_all"
    /\ is_ok(validation)
    /\ Len(validation[2]) = 2
    /\ render_results[1] = Ok(EmailTo(<<>>))
    /\ validation[2][1].issues = <<JoinFailure("a", "MissingMatch", 0)>>
    /\ render_results[2] = Err(Io)
    /\ validation[2][2].issues = <<UnresolvedVariable("<internal>")>>

\* render_context returned an email for a template in markdown or html
\* format.
RenderedHtml ==
    /\ stage = "render_context"
    /\ is_ok(rendered)
    /\ effective_body_format(mail) \in {"markdown", "html"}

\* The positions of text h outside its tags: not an angle bracket, and the
\* nearest angle bracket to the left, if there is one, is a '>'.
OutsideTags(h) ==
    {k \in 1 .. Len(h) :
        /\ h[k] \notin {"<", ">"}
        /\ LET brackets == {j \in 1 .. (k - 1) : h[j] \in {"<", ">"}}
           IN  brackets = {} \/ h[CHOOSE j \in brackets : \A i \in brackets : j >= i] = ">"}

\* Text h without its tags.
RECURSIVE WithoutTags(_)
WithoutTags(h) ==
    IF h = <<>> THEN <<>>
    ELSE WithoutTags(SubSeq(h, 1, Len(h) - 1))
         \o (IF Len(h) \in OutsideTags(h) THEN <<h[Len(h)]>> ELSE <<>>)

\* C23 as stated: the text_body of an email rendered in markdown or html
\* format contains no '<' character.
C23_NoAngleBracketInText ==
    RenderedHtml => \A k \in 1 .. Len(rendered[2].text_body) : rendered[2].text_body[k] # "<"

\* C23 amended: text_body holds no character of a tag of html_body; it holds
\* a '<' exactly when html_body without its tags holds the entity of '<',
\* written &lt; or &amp;lt;, and is html_body without its tags when that
\* holds no '&'.
C23_TagsRemovedEntitiesDecoded ==
    RenderedHtml =>
        LET text == rendered[2].text_body
            plain == WithoutTags(rendered[2].html_body[1])
        IN  /\ (\E k \in 1 .. Len(text) : text[k] = "<")
                  <=> \/ contains(plain, <<"&", "l", "t", ";">>)
                      \/ contains(plain, <<"&", "a", "m", "p", ";", "l", "t", ";">>)
            /\ (\A k \in 1 .. Len(plain) : plain[k] # "&") => text = plain
            /\ Len(text) <= Len(plain)

\* C23 witness: an html body made of an empty tag and the entity of '<';
\* the text body is '<'.
C23_Witness ==
    /\ RenderedHtml
    /\ rendered[2].html_body = Some(<<"<", ">", "&", "l", "t", ";">>)
    /\ rendered[2].text_body = <<"<">>

\* The body format in effect: the declared one, markdown when none is.
FormatInEffect == IF mail.body_format = None THEN "markdown" ELSE mail.body_format[1]

\* C24: an email returned by render_context has an html_body exactly when
\* the format in effect is markdown or html; in text format it has none and
\* its text_body is the text the body field rendered to, with or without a
\* style or stylesheet.
C24_HtmlBodyIffNotText ==
    (stage = "render_context" /\ is_ok(rendered)) =>
        /\ rendered[2].html_body # None <=> FormatInEffect \in {"markdown", "html"}
        /\ FormatInEffect = "text" =>
              /\ rendered[2].html_body = None
              /\ rendered[2].text_body = oracle.text["body"]

\* C24 witness: a template in text format with a style; the body rendered
\* to a text with a tag, which is the text_body.
C24_Witness ==
    /\ stage = "render_context"
    /\ is_ok(rendered)
    /\ mail.body_format = Some("text")
    /\ mail.style # None
    /\ rendered[2].html_body = None
    /\ rendered[2].text_body = <<"<", "b", ">", "x">>

\* The fields and steps of a template in the order of the claim: the header
\* fields, the body, reading and applying the CSS, the attachments.
StepOrder == <<"to", "subject", "cc", "bcc", "body", "resolve_css", "apply_css", "attachments">>

\* The position of a step in StepOrder.
StepRank(step) == CHOOSE k \in 1 .. Len(StepOrder) : StepOrder[k] = step

\* Step `step` fails when render_context gets to it.
StepFails(step) ==
    IF step = "resolve_css"
    THEN mail.style = None /\ mail.stylesheet # None /\ oracle.read # "Ok"
    ELSE IF step = "apply_css"
    THEN /\ FormatInEffect # "text"
         /\ mail.style # None \/ mail.stylesheet # None
         /\ oracle.inline = "Err"
    ELSE /\ step \in oracle.unresolved
         /\ step \in {"cc", "bcc", "attachments"} => mail[step] # None

\* The error a failing step returns.
StepError(step) ==
    IF step = "resolve_css"
    THEN IF oracle.read = "NotFound" THEN StylesheetNotFound ELSE Io
    ELSE IF step = "apply_css" THEN CssInline
    ELSE HandlebarsRender(step)

\* C25: render_context goes through to, subject, cc, bcc, body, the CSS and
\* body conversion and the attachments in this order and ends at the first
\* step that fails: it returns the error of the first failing step, has
\* gone through no later step, and returns an email only when no step fails.
C25_FirstFailingStep ==
    stage = "render_context" =>
        LET failing == {step \in {StepOrder[j] : j \in 1 .. Len(StepOrder)} :
                           StepFails(step)}
        IN  /\ \A i, j \in 1 .. Len(evaluated) :
                  i < j => StepRank(evaluated[i]) < StepRank(evaluated[j])
            /\ failing = {} <=> is_ok(rendered)
            /\ failing # {} =>
                  LET first == CHOOSE step \in failing :
                                   \A other \in failing : StepRank(step) <= StepRank(other)
                  IN  /\ rendered = Err(StepError(first))
                      /\ evaluated[Len(evaluated)] = first
                      /\ \A k \in 1 .. Len(evaluated) :
                            StepRank(evaluated[k]) <= StepRank(first)

\* C25 witness: the subject and the body both name an unresolved variable;
\* the error names the subject and the body was not rendered.
C25_Witness ==
    /\ stage = "render_context"
    /\ oracle.unresolved = {"subject", "body"}
    /\ rendered = Err(HandlebarsRender("subject"))
    /\ evaluated = <<"to", "subject">>

\* The namespaces the template marks primary.
Primaries == {n \in DOMAIN template : template[n].primary = Some(TRUE)}

\* The position of the first dot of a reference (0 when it has none).
FirstDot(ref) ==
    IF \E k \in 1 .. Len(ref) : ref[k] = "."
    THEN CHOOSE k \in 1 .. Len(ref) : ref[k] = "." /\ \A j \in 1 .. (k - 1) : ref[j] # "."
    ELSE 0

\* What is wrong with the join reference of namespace n, "" when nothing is:
\* not of the form namespace.field with two non-empty parts, naming n
\* itself, naming a namespace the template does not declare.
Defect(n) ==
    LET ref == template[n].join[1]["id"]
        dot == FirstDot(ref)
    IN  IF dot <= 1 \/ dot = Len(ref) THEN "InvalidJoinRef"
        ELSE IF SubSeq(ref, 1, dot - 1) = <<n>> THEN "SelfJoin"
        ELSE IF ~(dot = 2 /\ ref[1] \in DOMAIN template) THEN "UnknownJoinNamespace"
        ELSE ""

\* The namespaces with a join reference that has a defect.
Defective == {n \in DOMAIN template : template[n].join # None /\ Defect(n) # ""}

\* C26: validate_sources returns Ok exactly when one namespace is marked
\* primary and no join reference has a defect.  Without a primary it returns
\* NoPrimarySource, with several MultiplePrimarySource naming them in sorted
\* order, and otherwise the error of the defect of one of the defective
\* namespaces, naming that namespace.
C26_ValidateSources ==
    stage = "validate_sources" =>
        /\ is_ok(accepted) <=> (Cardinality(Primaries) = 1 /\ Defective = {})
        /\ Primaries = {} => accepted = Err(NoPrimarySource)
        /\ Cardinality(Primaries) > 1 =>
              /\ is_err(accepted)
              /\ accepted[2].kind = "MultiplePrimarySource"
              /\ elements(accepted[2].namespaces) = Primaries
              /\ Len(accepted[2].namespaces) = Cardinality(Primaries)
        /\ (Cardinality(Primaries) = 1 /\ Defective # {}) =>
              /\ is_err(accepted)
              /\ accepted[2].namespace \in Defective
              /\ accepted[2].kind = Defect(accepted[2].namespace)

\* C26 witness: p is primary and `a` joins on itself; the template is
\* rejected with SelfJoin naming `a`.
C26_Witness ==
    /\ stage = "validate_sources"
    /\ Primaries = {"p"}
    /\ "a" \in DOMAIN template
    /\ template["a"].join = Some([k \in {"id"} |-> <<"a", ".", "id">>])
    /\ accepted = Err(SelfJoin("a"))

\* C27: under fair scheduling every call of send_all_with_progress returns.
\* When it has, every spawned task has returned, and a task returns only
\* after it acquired a permit: no task is left waiting on the semaphore.
\* The permits out are those of the rows in flight at every moment, so that
\* every permit is back when the call returns.
C27_EventuallyReturns ==
    /\ (pc = "start") ~> (pc = "done")
    /\ [](pc = "done" =>
            \A i \in Rows : \/ task[i] = "unspawned" /\ (Skipped(i) \/ ~transport_ok)
                            \/ task[i] = "returned" /\ i \in acquired)
    /\ []((pc = "running" \/ (pc = "done" /\ transport_ok)) =>
            permits + Cardinality(InFlight) = semaphore_size(parallelism))

\* C27 witness: with one permit for two rows the call returned; both rows
\* had held the permit, one of them giving it back as cancelled after
\* acquiring it, and the flag was cleared again before the return.
C27_Witness ==
    /\ pc = "done"
    /\ parallelism = 1
    /\ total = 2
    /\ acquired = {0, 1}
    /\ acquired \ passed # {}
    /\ permits = 1
    /\ ~cancel

\* Every one of the MAX_ATTEMPTS attempts for row i failed with a transient
\* error.
Exhausted(i) ==
    /\ Len(sent[i]) = MAX_ATTEMPTS
    /\ \A k \in 1 .. MAX_ATTEMPTS : sent[i][k] # None /\ TransientCode(sent[i][k][1])

\* C28: when all MAX_ATTEMPTS attempts of a row failed with transient
\* errors, its task has returned the failed result that carries the error of
\* the last attempt, and that result is the one reported for the row.  The
\* loop of send_with_retry never runs out of attempts: a retry delay is only
\* entered when a further attempt is left, so the statement after the loop
\* is not reached.
C28_ExhaustionReturnsLastError ==
    \A i \in Rows :
        /\ attempt[i] < MAX_ATTEMPTS
        /\ task[i] = "sleeping" => attempt[i] + 1 < MAX_ATTEMPTS
        /\ Exhausted(i) =>
              /\ task[i] = "returned"
              /\ ret[i] = Some(SendResult(i, FALSE, sent[i][MAX_ATTEMPTS]))
              /\ \A k \in ReportedAt(i) :
                    results[k] = SendResult(i, FALSE, sent[i][MAX_ATTEMPTS])
              /\ pc = "done" => ReportedAt(i) # {}

\* C28 witness: the attempts failed with 421, 421 and 452; the report of the
\* returned call holds the 452 for the row.
C28_Witness ==
    /\ pc = "done"
    /\ \E i \in Rows :
          /\ sent[i] = <<Some(Err421), Some(Err421), Some(Err452)>>
          /\ \E k \in ReportedAt(i) : results[k].error = Some(Err452)

\* C30: in a dispatch started by send_batch, during which the flag is set
\* by cancel_send and never cleared, the results are listed in ascending
\* entry_index: first those of the spawned tasks, in the order of their
\* submission, then those of the rows skipped before spawning, every one of
\* which has a greater index than every spawned row.
C30_AscendingReport ==
    /\ \A k \in 1 .. Len(results) : \A m \in 1 .. Len(results) :
          k < m => results[k].entry_index < results[m].entry_index
    /\ (pc = "running" \/ (pc = "done" /\ transport_ok)) =>
          /\ \A k \in 1 .. Len(results) :
                IF k <= Len(handles)
                THEN results[k].entry_index = handles[k]
                ELSE results[k] = cancelled_results[k - Len(handles)]
          /\ \A k \in 1 .. Len(handles) : \A m \in 1 .. Len(cancelled_results) :
                handles[k] < cancelled_results[m].entry_index

\* C30 witness: cancel_send came between the two iterations of the spawn
\* loop; the returned report lists the result of the task of row 0, then
\* row 1 as cancelled.
C30_Witness ==
    /\ pc = "done"
    /\ cancel_requested
    /\ handles = <<0>>
    /\ Len(cancelled_results) = 1
    /\ Len(results) = 2
    /\ results[1].entry_index = 0
    /\ results[1].error # Some(CancelledText)
    /\ results[2] = SendResult(1, FALSE, Some(CancelledText))

\* ------------------------------------------------------------------- C29
\* The indices send_batch was asked to send, and the labels of the results
\* of its report.
Requested == indices_of(entry_indices, all_contexts)
Labels == [k \in 1 .. Len(batch_report.results) |-> batch_report.results[k].entry_index]
Occurrences(seq, x) == Cardinality({k \in 1 .. Len(seq) : seq[k] = x})
Range(seq) == {seq[k] : k \in 1 .. Len(seq)}

\* C29: the report send_batch returns has, for every requested entry index
\* (every primary row when no subset is given), as many results labelled
\* with that original index as the index was requested, and none with any
\* other label; the results of rows whose join or render failed are the
\* pre-send failures, which come first and are failures without recipient,
\* and the others are the results of the dispatched rows; and
\* success_count + failure_count = total = the number of requested indices.
C29_ReportCoversRequest ==
    batch_report # <<>> =>
        /\ \A idx \in Range(Labels) \cup Range(Requested) :
              Occurrences(Labels, idx) = Occurrences(Requested, idx)
        /\ \A k \in 1 .. Len(batch_report.results) :
              LET r == batch_report.results[k]
              IN  /\ (k <= Len(pre_send_failures)) <=> ~is_rendered(r.entry_index, all_contexts)
                  /\ k <= Len(pre_send_failures)
                        => ~r.success /\ r.recipient = <<>> /\ r.error # None
        /\ batch_report.success_count + batch_report.failure_count = batch_report.total
        /\ batch_report.total = Len(Requested)

\* A report for a subset, with a pre-send failure, and with a row that was
\* sent and whose original index is not its position in the dispatched list.
C29_Witness ==
    /\ batch_report # <<>>
    /\ entry_indices # None
    /\ pre_send_failures # <<>>
    /\ batch_report.success_count > 0
    /\ \E k \in 1 .. Len(index_map) : index_map[k] # k - 1
====
